---- MODULE Spec2Model ----
(***************************************************************************)
(* Model of the stacked-commits tool: the repository handle (GitRepo), the *)
(* reconciliation run (sync / pull) and the conflict resume state machine. *)
(*                                                                         *)
(* A tree is a function from slots (regions of files) to the content of    *)
(* the region.  Stack element k owns three slots: the region its commit    *)
(* adds, the region a review fix touches (the local author may amend it    *)
(* and a collaborator may edit it on the remote branch) and a region only  *)
(* a local amend touches.                                                  *)
(* A commit is a record of its tree, its parents, its message and the time *)
(* of its signature; the object store is content addressed, so two commits *)
(* with the same four fields are one object.                               *)
(***************************************************************************)
EXTENDS Integers, Sequences, FiniteSets, TLC

VARIABLES
    commits,        \* object store: commit id -> [tree, parents, message]
    notes,          \* refs/notes/commits: commit id -> CommitMetadata
    remoteRefs,     \* refs/remotes/origin/*: branch name -> commit id
    localBranch,    \* refs/heads/<current branch>: commit id
    head,           \* HEAD: [detached, id]
    index,          \* index and working tree: [tree, conflicts]
    syncFile,       \* .ubr/SYNC_MERGE_HEAD: <<>> or <<SyncState>>
    config,         \* set of configuration written by open
    pc,             \* position of the running command, "idle" between commands
    handle,         \* the GitRepo of the running command
    todo,           \* stack elements still to walk (oldest first)
    pred,           \* the already reconciled predecessor
    cur,            \* the stack element under reconciliation: [local, remote]
    merged,         \* the merge commit of the element under reconciliation
    result,         \* outcome of the last command
    cmds,           \* number of commands started
    hist            \* history of the last command, for stating properties

vars == <<commits, notes, remoteRefs, localBranch, head, index, syncFile, config,
          pc, handle, todo, pred, cur, merged, result, cmds, hist>>

(* Bounds of the model. *)
MaxStack == 2
MaxCmds == 4

-----------------------------------------------------------------------------
(* Trees. *)

Elems == 1..MaxStack
Slots == 1..(3 * MaxStack)
FeatSlot(k) == 3 * k - 2
FixSlot(k) == 3 * k - 1
SideSlot(k) == 3 * k

EmptyTree == [s \in Slots |-> "-"]

NoCommit == 0

CurrentBranch == "main"
PrBranch(k) == "pr" \o ToString(k)
MessageOf(k) == "commit" \o ToString(k)

RECURSIVE Ancestors(_, _)
Ancestors(cs, c) ==
    {c} \cup UNION {Ancestors(cs, cs[c].parents[i]) : i \in DOMAIN cs[c].parents}

graph_descendant_of(cs, c, a) == c # a /\ a \in Ancestors(cs, c)

merge_base(cs, a, b) ==
    LET common == Ancestors(cs, a) \cap Ancestors(cs, b)
    IN  CHOOSE c \in common : \A d \in common : d \in Ancestors(cs, c)

merge_trees(base, ours, theirs) ==
    LET clash == {s \in Slots : /\ ours[s] # theirs[s]
                                /\ ours[s] # base[s]
                                /\ theirs[s] # base[s]}
    IN  [tree |-> [s \in Slots |->
                     IF s \in clash THEN "conflict"
                     ELSE IF ours[s] = base[s] THEN theirs[s] ELSE ours[s]],
         conflicts |-> clash]

merge_commits(cs, a, b) ==
    merge_trees(cs[merge_base(cs, a, b)].tree, cs[a].tree, cs[b].tree)

diff_tree_to_tree(old, new) ==
    [s \in {x \in Slots : old[x] # new[x]} |-> <<old[s], new[s]>>]

apply_to_tree(tree, diff) ==
    IF \A s \in DOMAIN diff : tree[s] = diff[s][1]
    THEN [ok |-> TRUE,
          tree |-> [s \in Slots |-> IF s \in DOMAIN diff THEN diff[s][2] ELSE tree[s]]]
    ELSE [ok |-> FALSE, tree |-> tree]

(* repo.commit: the id of the object with this content, a fresh id when    *)
(* the store has none.                                                     *)
NewCommit(tree, parents, message) ==
    [tree |-> tree, parents |-> parents, message |-> message, time |-> 0]

(* Signature::now and repo.signature(): the time of the running command.   *)
(* Commands run one after another at distinct times, all later than the    *)
(* commits the repository starts with (time 0).                            *)
Now == cmds

Signed(commit) == [commit EXCEPT !.time = Now]

CommitId(cs, c) ==
    IF \E i \in DOMAIN cs : cs[i] = c
    THEN CHOOSE i \in DOMAIN cs : cs[i] = c
    ELSE (CHOOSE m \in DOMAIN cs : \A i \in DOMAIN cs : i <= m) + 1

Store(cs, c) ==
    [i \in DOMAIN cs \cup {CommitId(cs, c)} |-> IF i \in DOMAIN cs THEN cs[i] ELSE c]

-----------------------------------------------------------------------------
(* The repositories the model starts from: a base commit pushed to         *)
(* origin/main and a stack of n local commits on top of it.  A tracked     *)
(* element was published to its own remote branch (its change cherry       *)
(* picked onto the base) and carries a note naming that branch; the remote *)
(* branch may since have received a fix, and the local commit may since    *)
(* have been amended in the same region or in another one.                 *)

Shapes ==
    {[tracked |-> FALSE, remote |-> FALSE, amend |-> "none", empty |-> FALSE]}
    \cup [tracked : {TRUE}, remote : BOOLEAN, amend : {"none", "fix", "side"},
          empty : {FALSE}]

(* A published commit that leaves no file in the tree: neither the local   *)
(* commit nor its remote branch holds any content.                         *)
EmptyCommitShape ==
    [tracked |-> TRUE, remote |-> FALSE, amend |-> "none", empty |-> TRUE]

BaseId == 1
LocalId(k) == 1 + k
PublishedId(k) == 1 + MaxStack + k
RemoteFixId(k) == 1 + 2 * MaxStack + k
RootId == 2 + 3 * MaxStack

LocalTree(shape, k) ==
    [s \in Slots |->
        IF \E j \in 1..k : s = FeatSlot(j) /\ ~shape[j].empty THEN "feat"
        ELSE IF \E j \in 1..k : s = FixSlot(j) /\ shape[j].amend = "fix" THEN "local"
        ELSE IF \E j \in 1..k : s = SideSlot(j) /\ shape[j].amend = "side" THEN "local"
        ELSE "-"]

PublishedTree(k) == [EmptyTree EXCEPT ![FeatSlot(k)] = "feat"]
RemoteFixTree(k) == [PublishedTree(k) EXCEPT ![FixSlot(k)] = "remote"]

RemoteTip(shape, k) == IF shape[k].remote THEN RemoteFixId(k) ELSE PublishedId(k)

InitCommits(n, shape) ==
    LET ids == {BaseId, RootId} \cup {LocalId(k) : k \in 1..n}
               \cup {PublishedId(k) : k \in {j \in 1..n : shape[j].tracked}}
               \cup {RemoteFixId(k) : k \in {j \in 1..n : shape[j].remote}}
    IN  [i \in ids |->
            IF i = RootId THEN NewCommit(EmptyTree, <<>>, "root")
            ELSE IF i = BaseId THEN NewCommit(EmptyTree, <<RootId>>, "base")
            ELSE IF i <= 1 + MaxStack
                 THEN NewCommit(LocalTree(shape, i - 1), <<i - 1>>, MessageOf(i - 1))
            ELSE IF i <= 1 + 2 * MaxStack
                 THEN NewCommit(IF shape[i - 1 - MaxStack].empty THEN EmptyTree
                                ELSE PublishedTree(i - 1 - MaxStack), <<BaseId>>,
                                MessageOf(i - 1 - MaxStack))
            ELSE NewCommit(RemoteFixTree(i - 1 - 2 * MaxStack),
                           <<PublishedId(i - 1 - 2 * MaxStack)>>, "Fixup")]

CommitMetadata(branch, remote_commit) ==
    [remote_branch_name |-> branch, remote_commit |-> remote_commit]

InitNotes(n, shape, pinned) ==
    [i \in {LocalId(k) : k \in {j \in 1..n : shape[j].tracked}} |->
        CommitMetadata(PrBranch(i - 1),
                       IF pinned THEN PublishedId(i - 1) ELSE NoCommit)]

InitRemoteRefs(n, shape) ==
    [b \in {CurrentBranch} \cup {PrBranch(k) : k \in {j \in 1..n : shape[j].tracked}} |->
        IF b = CurrentBranch THEN BaseId
        ELSE RemoteTip(shape, CHOOSE k \in 1..n : PrBranch(k) = b)]

(* A repository with a published commit has been opened by the tool. *)
InitConfig(n, shape, pinned) ==
    IF \A k \in 1..n : ~shape[k].tracked THEN {}
    ELSE IF pinned THEN {"notes.rewriteRef"}
    ELSE {"notes.rewriteRef", "info/exclude"}

NoHandle == [current_branch_name |-> "", sync_state |-> <<>>, git_command_option |-> ""]
NoElement == [local |-> NoCommit, remote |-> NoCommit]
ResumeHint == "Once all the conflicts has been resolved, run 'ubr sync --continue'"

(* The text of an error, as the pieces it is formatted from. *)
Display(kind, local, remote) ==
    IF kind = "MergeConflict"
    THEN <<"Unable to merge local commit (", local,
           ") with commit from remote (", remote, ")", ResumeHint>>
    ELSE <<kind>>

(* The error with the two commit identifiers exchanged. *)
Outcome_swapped(kind, local, remote) ==
    [kind |-> kind, local |-> remote, remote |-> local,
     message |-> Display(kind, remote, local)]

Outcome(kind, local, remote) ==
    [kind |-> kind, local |-> local, remote |-> remote,
     message |-> Display(kind, local, remote)]
Ok == Outcome("ok", NoCommit, NoCommit)
Failure(kind) == Outcome(kind, NoCommit, NoCommit)

(* What a command can observe of the repository. *)
Snapshot ==
    [localBranch |-> localBranch, head |-> head, notes |-> notes, index |-> index,
     syncFile |-> syncFile, remoteRefs |-> remoteRefs, commits |-> commits]

NoHist ==
    [kind |-> "none", before |-> <<>>, stack |-> <<>>, moves |-> 0, done |-> <<>>,
     prev |-> "none"]

(* pinned: whether the notes record the published commit (remote-commit)  *)
(* or only the branch name.                                                *)
InitOver(shapes, pinned) ==
    \E n \in 0..MaxStack : \E shape \in [1..n -> shapes] :
        /\ commits = InitCommits(n, shape)
        /\ notes = InitNotes(n, shape, pinned)
        /\ remoteRefs = InitRemoteRefs(n, shape)
        /\ localBranch = LocalId(n)
        /\ head = [detached |-> FALSE, id |-> NoCommit]
        /\ index = [tree |-> LocalTree(shape, n), conflicts |-> {}]
        /\ syncFile = <<>>
        /\ config = InitConfig(n, shape, pinned)
        /\ pc = "idle"
        /\ handle = NoHandle
        /\ todo = <<>>
        /\ pred = NoCommit
        /\ cur = NoElement
        /\ merged = NoCommit
        /\ result = Ok
        /\ cmds = 0
        /\ hist = NoHist

InitWith(pinned) == InitOver(Shapes, pinned)

Init == InitWith(FALSE)

-----------------------------------------------------------------------------
(* GitRepo, the repository handle. *)

(* The record with main_commit_id and main_commit_parent_id exchanged. *)
SyncState_parent_as_main(main, remote, parent, branch) ==
    [main_commit_id |-> parent, remote_commit_id |-> remote,
     main_commit_parent_id |-> main, main_branch_name |-> branch]

SyncState(main, remote, parent, branch) ==
    [main_commit_id |-> main, remote_commit_id |-> remote,
     main_commit_parent_id |-> parent, main_branch_name |-> branch]

(* The content of .ubr/SYNC_MERGE_HEAD after File::create_new and before   *)
(* serde_json::to_writer has written the state: a file that does not parse. *)
Truncated == [partial |-> TRUE]

from_reader(content) ==
    IF "main_commit_id" \in DOMAIN content THEN <<content>> ELSE <<>>

try_load_sync_state == IF syncFile # <<>> THEN from_reader(syncFile[1]) ELSE <<>>

(* open_with_remote without config.set_str("notes.rewriteRef", ...). *)
open_with_remote_without_rewriteRef(option) ==
    IF try_load_sync_state # <<>>
    THEN [ok |-> TRUE, error |-> "",
          repo |-> [current_branch_name |-> try_load_sync_state[1].main_branch_name,
                    sync_state |-> try_load_sync_state,
                    git_command_option |-> option],
          config |-> config]
    ELSE IF head.detached
    THEN [ok |-> FALSE, error |-> "Detached HEAD", repo |-> NoHandle, config |-> config]
    ELSE [ok |-> TRUE, error |-> "",
          repo |-> [current_branch_name |-> CurrentBranch,
                    sync_state |-> <<>>,
                    git_command_option |-> option],
          config |-> config \cup {"info/exclude"}]

(* open_with_remote without the write of info/exclude. *)
open_with_remote_without_exclude(option) ==
    IF try_load_sync_state # <<>>
    THEN [ok |-> TRUE, error |-> "",
          repo |-> [current_branch_name |-> try_load_sync_state[1].main_branch_name,
                    sync_state |-> try_load_sync_state,
                    git_command_option |-> option],
          config |-> config]
    ELSE IF head.detached
    THEN [ok |-> FALSE, error |-> "Detached HEAD", repo |-> NoHandle, config |-> config]
    ELSE [ok |-> TRUE, error |-> "",
          repo |-> [current_branch_name |-> CurrentBranch,
                    sync_state |-> <<>>,
                    git_command_option |-> option],
          config |-> config \cup {"notes.rewriteRef"}]

open_with_remote(option) ==
    IF try_load_sync_state # <<>>
    THEN [ok |-> TRUE, error |-> "",
          repo |-> [current_branch_name |-> try_load_sync_state[1].main_branch_name,
                    sync_state |-> try_load_sync_state,
                    git_command_option |-> option],
          config |-> config]
    ELSE IF head.detached
    THEN [ok |-> FALSE, error |-> "Detached HEAD", repo |-> NoHandle, config |-> config]
    ELSE [ok |-> TRUE, error |-> "",
          repo |-> [current_branch_name |-> CurrentBranch,
                    sync_state |-> <<>>,
                    git_command_option |-> option],
          config |-> config \cup {"notes.rewriteRef", "info/exclude"}]

open == open_with_remote("Silent")

base_commit(repo) == remoteRefs[repo.current_branch_name]

head_commit == IF head.detached THEN head.id ELSE localBranch

IsTracked(c) == c \in DOMAIN notes

(* repo.note without force: an existing note is kept. *)
save_meta_data_without_force(ns, c, meta) ==
    [i \in DOMAIN ns \cup {c} |-> IF i \in DOMAIN ns THEN ns[i] ELSE meta]

save_meta_data(ns, c, meta) ==
    [i \in DOMAIN ns \cup {c} |-> IF i = c THEN meta ELSE ns[i]]

(* File::create in place of File::create_new: an existing file is truncated. *)
save_sync_state_create(state) ==
    [ok |-> TRUE, file |-> <<state>>]

save_sync_state(state) ==
    IF syncFile = <<>>
    THEN [ok |-> TRUE, file |-> <<state>>]
    ELSE [ok |-> FALSE, file |-> syncFile]

cleanup_state ==
    IF syncFile # <<>>
    THEN [ok |-> TRUE, file |-> <<>>]
    ELSE [ok |-> FALSE, file |-> syncFile]

(* A revision walk, topological and reversed: parents before children. *)
RECURSIVE revwalk(_, _)
revwalk(cs, S) ==
    IF S = {} THEN <<>>
    ELSE LET c == CHOOSE x \in S :
                    \A i \in DOMAIN cs[x].parents : cs[x].parents[i] \notin S
         IN  <<c>> \o revwalk(cs, S \ {c})

(* The walk without Sort::REVERSE: newest first. *)
Reverse(seq) == [i \in DOMAIN seq |-> seq[Len(seq) + 1 - i]]

unpushed_commits_newest_first(repo) ==
    LET base_commit_id == IF repo.sync_state # <<>>
                          THEN repo.sync_state[1].main_commit_id
                          ELSE base_commit(repo)
    IN  Reverse(revwalk(commits, Ancestors(commits, localBranch)
                                 \ Ancestors(commits, base_commit_id)))

(* The walk hiding the base commit also when a Sync State is loaded. *)
unpushed_commits_from_base(repo) ==
    revwalk(commits, Ancestors(commits, localBranch)
                     \ Ancestors(commits, base_commit(repo)))

(* The walk hiding the recorded parent in place of the interrupted commit. *)
unpushed_commits_hiding_parent(repo) ==
    LET base_commit_id == IF repo.sync_state # <<>>
                          THEN repo.sync_state[1].main_commit_parent_id
                          ELSE base_commit(repo)
    IN  revwalk(commits, Ancestors(commits, localBranch)
                         \ Ancestors(commits, base_commit_id))

unpushed_commits(repo) ==
    LET base_commit_id == IF repo.sync_state # <<>>
                          THEN repo.sync_state[1].main_commit_id
                          ELSE base_commit(repo)
    IN  revwalk(commits, Ancestors(commits, localBranch)
                         \ Ancestors(commits, base_commit_id))

find_unpushed_commit(repo, c) == graph_descendant_of(commits, c, base_commit(repo))

(* The remote commit a tracked commit is reconciled against. *)
find_local_branch_commit(meta) ==
    IF meta.remote_commit # NoCommit THEN meta.remote_commit
    ELSE IF meta.remote_branch_name \in DOMAIN remoteRefs
         THEN remoteRefs[meta.remote_branch_name]
    ELSE NoCommit

-----------------------------------------------------------------------------
(* The reconciliation run: sync::execute and TrackedCommit. *)

(* The re-parenting that leaves the commit on the parent it had. *)
Reparented_keeping_parent(cs, original, new_tree, new_parent) ==
    LET diff == diff_tree_to_tree(cs[cs[original].parents[1]].tree, new_tree)
        applied == apply_to_tree(cs[cs[original].parents[1]].tree, diff)
    IN  [ok |-> applied.ok,
         commit |-> [NewCommit(applied.tree, <<cs[original].parents[1]>>,
                               cs[original].message)
                        EXCEPT !.time = cs[original].time]]

(* Steps 3 and 4 of a reconciliation: the content the merge produced for   *)
(* this stack position, re-applied as a diff onto the reconciled           *)
(* predecessor, under the message of the original commit.                  *)
Reparented(cs, original, new_tree, new_parent) ==
    LET diff == diff_tree_to_tree(cs[cs[original].parents[1]].tree, new_tree)
        applied == apply_to_tree(cs[new_parent].tree, diff)
    IN  [ok |-> applied.ok,
         commit |-> [NewCommit(applied.tree, <<new_parent>>, cs[original].message)
                        EXCEPT !.time = cs[original].time]]

Finish(outcome) ==
    /\ pc' = "idle"
    /\ result' = outcome
    /\ handle' = NoHandle
    /\ todo' = <<>>
    /\ pred' = NoCommit
    /\ cur' = NoElement
    /\ merged' = NoCommit

StartHist(kind, stack) ==
    [kind |-> kind, before |-> Snapshot, stack |-> stack,
     moves |-> 0, done |-> <<>>,
     prev |-> IF result.kind = "ok" THEN hist.kind ELSE "failed"]

(* sync with cont == false: a fresh run, started when no reconciliation is *)
(* in progress.                                                            *)
SyncFresh ==
    /\ pc = "idle"
    /\ cmds < MaxCmds
    /\ cmds' = cmds + 1
    /\ LET o == open
       IN  /\ config' = o.config
           /\ IF ~o.ok
              THEN /\ Finish(Failure(o.error))
                   /\ hist' = StartHist("sync", <<>>)
              ELSE /\ pc' = "walk"
                   /\ handle' = o.repo
                   /\ pred' = base_commit(o.repo)
                   /\ todo' = unpushed_commits(o.repo)
                   /\ hist' = StartHist("sync", unpushed_commits(o.repo))
                   /\ UNCHANGED <<cur, merged, result>>
    /\ UNCHANGED <<commits, notes, remoteRefs, localBranch, head, index, syncFile>>

StartSync == syncFile = <<>> /\ SyncFresh

(* The same command given while a Sync State is persisted (the user left   *)
(* out --continue): open loads the state and the walk starts from it.      *)
StartSyncStale == syncFile # <<>> /\ SyncFresh

(* sync with cont == true that does not ask for a Sync State: without one  *)
(* it walks the stack as a fresh run does.                                 *)
StartContinue_unchecked ==
    /\ pc = "idle"
    /\ cmds < MaxCmds
    /\ cmds' = cmds + 1
    /\ LET o == open
       IN  /\ config' = o.config
           /\ hist' = StartHist("continue", unpushed_commits(o.repo))
           /\ handle' = o.repo
           /\ IF o.repo.sync_state = <<>>
              THEN /\ pc' = "walk"
                   /\ pred' = base_commit(o.repo)
                   /\ todo' = unpushed_commits(o.repo)
                   /\ UNCHANGED <<cur, merged, result>>
              ELSE /\ pc' = "finish_merge"
                   /\ UNCHANGED <<todo, pred, cur, merged, result>>
    /\ UNCHANGED <<commits, notes, remoteRefs, localBranch, head, index, syncFile>>

(* sync with cont == true: resume the interrupted run. *)
StartContinue ==
    /\ pc = "idle"
    /\ cmds < MaxCmds
    /\ cmds' = cmds + 1
    /\ LET o == open
       IN  /\ config' = o.config
           /\ IF ~o.ok
              THEN /\ Finish(Failure(o.error))
                   /\ hist' = StartHist("continue", <<>>)
              ELSE IF o.repo.sync_state = <<>>
              THEN /\ Finish(Failure("NoSyncInProgress"))
                   /\ hist' = StartHist("continue", unpushed_commits(o.repo))
              ELSE /\ pc' = "finish_merge"
                   /\ handle' = o.repo
                   /\ hist' = StartHist("continue", unpushed_commits(o.repo))
                   /\ UNCHANGED <<todo, pred, cur, merged, result>>
    /\ UNCHANGED <<commits, notes, remoteRefs, localBranch, head, index, syncFile>>

(* One stack element.  An untracked commit is moved onto the reconciled     *)
(* predecessor as it is.  A tracked commit is merged with the tip of its   *)
(* remote branch; a conflict leaves the index conflicted and goes on to    *)
(* persist the Sync State.                                                 *)
WalkNext ==
    /\ pc = "walk"
    /\ todo # <<>>
    /\ LET c == Head(todo)
           remote == find_local_branch_commit(notes[c])
           m == merge_commits(commits, c, remote)
           mc == Signed(NewCommit(m.tree, <<c, remote>>, "Merge"))
           r == Reparented(commits, c, commits[c].tree, pred)
       IN  IF ~IsTracked(c)
           THEN IF ~r.ok
                THEN /\ Finish(Failure("ApplyFailed"))
                     /\ UNCHANGED <<commits, index, hist>>
                ELSE /\ commits' = Store(commits, r.commit)
                     /\ pred' = CommitId(commits, r.commit)
                     /\ todo' = Tail(todo)
                     /\ hist' = [hist EXCEPT !.done = Append(@, c)]
                     /\ UNCHANGED <<index, pc, handle, cur, merged, result>>
           ELSE IF remote = NoCommit
           THEN /\ Finish(Failure("RemoteBranchMissing"))
                /\ UNCHANGED <<commits, index, hist>>
           ELSE IF m.conflicts # {}
           THEN /\ index' = m
                /\ cur' = [local |-> c, remote |-> remote]
                /\ pc' = "save_state"
                /\ UNCHANGED <<commits, handle, todo, pred, merged, result, hist>>
           ELSE IF m.tree = EmptyTree
           THEN /\ Finish(Failure("EmptyMerge"))
                /\ UNCHANGED <<commits, index, hist>>
           ELSE /\ commits' = Store(commits, mc)
                /\ merged' = CommitId(commits, mc)
                /\ cur' = [local |-> c, remote |-> remote]
                /\ pc' = "reparent"
                /\ UNCHANGED <<index, handle, todo, pred, result, hist>>
    /\ UNCHANGED <<notes, remoteRefs, localBranch, head, syncFile, config, cmds>>

(* The merge succeeded: re-parent its content onto the reconciled          *)
(* predecessor and carry message and metadata to the new commit.           *)
ReparentStep ==
    /\ pc = "reparent"
    /\ LET r == Reparented(commits, cur.local, commits[merged].tree, pred)
           new == CommitId(commits, r.commit)
       IN  IF ~r.ok
           THEN /\ Finish(Failure("ApplyFailed"))
                /\ UNCHANGED <<commits, notes, hist>>
           ELSE /\ commits' = Store(commits, r.commit)
                /\ notes' = save_meta_data(notes, new, notes[cur.local])
                /\ pred' = new
                /\ todo' = Tail(todo)
                /\ pc' = "walk"
                /\ hist' = [hist EXCEPT !.done = Append(@, cur.local)]
                /\ UNCHANGED <<handle, cur, merged, result>>
    /\ UNCHANGED <<remoteRefs, localBranch, head, index, syncFile, config, cmds>>

(* The merge conflicted: persist the Sync State and fail. *)
SaveStateStep ==
    /\ pc = "save_state"
    /\ LET saved == save_sync_state(SyncState(cur.local, cur.remote, pred,
                                              handle.current_branch_name))
       IN  /\ syncFile' = saved.file
           /\ Finish(IF saved.ok
                     THEN Outcome("MergeConflict", cur.local, cur.remote)
                     ELSE Failure("AlreadyExists"))
    /\ UNCHANGED <<commits, notes, remoteRefs, localBranch, head, index, config,
                   cmds, hist>>

(* finish_merge: write the index as a tree and commit it as the merge.     *)
(* finish_merge with the cleanup moved in front of the commit. *)
FinishMergeCommit_cleanup_first ==
    /\ pc = "finish_merge"
    /\ IF index.conflicts # {}
       THEN /\ Finish(Failure("Unmerged"))
            /\ UNCHANGED syncFile
       ELSE /\ syncFile' = cleanup_state.file
            /\ pc' = "fm_cleanup"
            /\ UNCHANGED <<handle, todo, pred, cur, merged, result>>
    /\ UNCHANGED <<commits, notes, remoteRefs, localBranch, head, index, config,
                   cmds, hist>>

(* finish_merge writing the index as it is, conflicted entries included. *)
FinishMergeCommit_ignoring_conflicts ==
    /\ pc = "finish_merge"
    /\ LET state == handle.sync_state[1]
           mc == Signed(NewCommit(index.tree,
                                   <<head_commit, state.remote_commit_id>>, "Merge"))
       IN  /\ commits' = Store(commits, mc)
           /\ merged' = CommitId(commits, mc)
           /\ pc' = "fm_cleanup"
           /\ UNCHANGED <<handle, todo, pred, cur, result>>
    /\ UNCHANGED <<notes, remoteRefs, localBranch, head, index, syncFile, config,
                   cmds, hist>>

FinishMergeCommit ==
    /\ pc = "finish_merge"
    /\ LET state == handle.sync_state[1]
           mc == Signed(NewCommit(index.tree,
                                   <<head_commit, state.remote_commit_id>>, "Merge"))
       IN  IF index.conflicts # {}
           THEN /\ Finish(Failure("Unmerged"))
                /\ UNCHANGED commits
           ELSE IF state.remote_commit_id \notin DOMAIN commits
           THEN /\ Finish(Failure("NotFound"))
                /\ UNCHANGED commits
           ELSE /\ commits' = Store(commits, mc)
                /\ merged' = CommitId(commits, mc)
                /\ pc' = "fm_cleanup"
                /\ UNCHANGED <<handle, todo, pred, cur, result>>
    /\ UNCHANGED <<notes, remoteRefs, localBranch, head, index, syncFile, config,
                   cmds, hist>>

(* finish_merge: delete the persisted Sync State. *)
FinishMergeCleanup ==
    /\ pc = "fm_cleanup"
    /\ LET cleaned == cleanup_state
       IN  IF ~cleaned.ok
           THEN /\ Finish(Failure("Cleanup sync state"))
                /\ UNCHANGED syncFile
           ELSE /\ syncFile' = cleaned.file
                /\ pc' = "fm_cont"
                /\ UNCHANGED <<handle, todo, pred, cur, merged, result>>
    /\ UNCHANGED <<commits, notes, remoteRefs, localBranch, head, index, config,
                   cmds, hist>>

(* finish_merge: find the interrupted commit and fold the merge commit     *)
(* into the stack on top of the persisted predecessor; the walk goes on    *)
(* with the elements after it.                                             *)
(* finish_merge continuing with the interrupted commit as it was, the     *)
(* merge commit left aside.                                                *)
FinishMergeCont_without_merge ==
    /\ pc = "fm_cont"
    /\ LET state == handle.sync_state[1]
           main == state.main_commit_id
           r == Reparented(commits, main, commits[main].tree,
                           state.main_commit_parent_id)
           new == CommitId(commits, r.commit)
       IN  /\ commits' = Store(commits, r.commit)
           /\ notes' = save_meta_data(notes, new, notes[main])
           /\ pred' = new
           /\ todo' = unpushed_commits(handle)
           /\ cur' = [local |-> main, remote |-> state.remote_commit_id]
           /\ pc' = "walk"
           /\ hist' = [hist EXCEPT !.done = Append(@, main)]
           /\ UNCHANGED <<handle, merged, result>>
    /\ UNCHANGED <<remoteRefs, localBranch, head, index, syncFile, config, cmds>>

FinishMergeCont ==
    /\ pc = "fm_cont"
    /\ LET state == handle.sync_state[1]
           main == state.main_commit_id
           r == Reparented(commits, main, commits[merged].tree,
                           state.main_commit_parent_id)
           new == CommitId(commits, r.commit)
       IN  IF ~find_unpushed_commit(handle, main)
           THEN /\ Finish(Failure("AlreadyPushed"))
                /\ UNCHANGED <<commits, notes, hist>>
           ELSE IF ~IsTracked(main)
           THEN /\ Finish(Failure("not yet implemented"))
                /\ UNCHANGED <<commits, notes, hist>>
           ELSE IF ~r.ok
           THEN /\ Finish(Failure("ApplyFailed"))
                /\ UNCHANGED <<commits, notes, hist>>
           ELSE /\ commits' = Store(commits, r.commit)
                /\ notes' = save_meta_data(notes, new, notes[main])
                /\ pred' = new
                /\ todo' = unpushed_commits(handle)
                /\ cur' = [local |-> main, remote |-> state.remote_commit_id]
                /\ pc' = "walk"
                /\ hist' = [hist EXCEPT !.done = Append(@, main)]
                /\ UNCHANGED <<handle, merged, result>>
    /\ UNCHANGED <<remoteRefs, localBranch, head, index, syncFile, config, cmds>>

(* update_current_branch that relocates in every mode. *)
UpdateBranchCheckout_in_every_mode ==
    /\ pc = "walk"
    /\ todo = <<>>
    /\ index' = [tree |-> commits[pred].tree, conflicts |-> {}]
    /\ pc' = "ucb_detach"
    /\ UNCHANGED <<handle, todo, pred, cur, merged, result>>
    /\ UNCHANGED <<commits, notes, remoteRefs, localBranch, head, syncFile, config,
                   cmds, hist>>

(* update_current_branch(pred), after the last stack element: check out    *)
(* the tree, detach HEAD, move the branch, reattach HEAD.                  *)
UpdateBranchCheckout ==
    /\ pc = "walk"
    /\ todo = <<>>
    /\ IF handle.git_command_option = "DryRun"
       THEN /\ Finish(Ok)
            /\ UNCHANGED index
       ELSE /\ index' = [tree |-> commits[pred].tree, conflicts |-> {}]
            /\ pc' = "ucb_detach"
            /\ UNCHANGED <<handle, todo, pred, cur, merged, result>>
    /\ UNCHANGED <<commits, notes, remoteRefs, localBranch, head, syncFile, config,
                   cmds, hist>>

UpdateBranchDetach ==
    /\ pc = "ucb_detach"
    /\ head' = [detached |-> TRUE, id |-> pred]
    /\ pc' = "ucb_branch"
    /\ UNCHANGED <<commits, notes, remoteRefs, localBranch, index, syncFile, config,
                   handle, todo, pred, cur, merged, result, cmds, hist>>

UpdateBranchMove ==
    /\ pc = "ucb_branch"
    /\ localBranch' = pred
    /\ hist' = [hist EXCEPT !.moves = @ + 1]
    /\ pc' = "ucb_set_head"
    /\ UNCHANGED <<commits, notes, remoteRefs, head, index, syncFile, config,
                   handle, todo, pred, cur, merged, result, cmds>>

UpdateBranchSetHead ==
    /\ pc = "ucb_set_head"
    /\ head' = [detached |-> FALSE, id |-> NoCommit]
    /\ Finish(Ok)
    /\ UNCHANGED <<commits, notes, remoteRefs, localBranch, index, syncFile, config,
                   cmds, hist>>

(* The user resolves the conflicted regions and stages the result. *)
Resolutions == {"local", "remote", "resolved"}

Resolve ==
    /\ pc = "idle"
    /\ index.conflicts # {}
    /\ \E v \in Resolutions :
         index' = [tree |-> [s \in Slots |->
                               IF s \in index.conflicts THEN v ELSE index.tree[s]],
                   conflicts |-> {}]
    /\ UNCHANGED <<commits, notes, remoteRefs, localBranch, head, syncFile, config,
                   pc, handle, todo, pred, cur, merged, result, cmds, hist>>

Next ==
    \/ StartSync
    \/ StartContinue
    \/ WalkNext
    \/ ReparentStep
    \/ SaveStateStep
    \/ FinishMergeCommit
    \/ FinishMergeCleanup
    \/ FinishMergeCont
    \/ UpdateBranchCheckout
    \/ UpdateBranchDetach
    \/ UpdateBranchMove
    \/ UpdateBranchSetHead
    \/ Resolve

Spec == Init /\ [][Next]_vars

NextStale == Next \/ StartSyncStale

SpecStale == Init /\ [][NextStale]_vars

-----------------------------------------------------------------------------
(* The earlier revision of the handle (src/git/mod.rs): pull reconciles    *)
(* one commit per call of GitRepo::update, which also moves the branch.    *)

open_v1 ==
    IF head.detached
    THEN [ok |-> FALSE, error |-> "Detached HEAD", repo |-> NoHandle, config |-> config]
    ELSE IF CurrentBranch \notin DOMAIN remoteRefs
    THEN [ok |-> FALSE, error |-> "NoUpstream", repo |-> NoHandle, config |-> config]
    ELSE [ok |-> TRUE, error |-> "",
          repo |-> [current_branch_name |-> CurrentBranch,
                    base_commit_id |-> remoteRefs[CurrentBranch]],
          config |-> config \cup {"notes.rewriteRef"}]

(* graph_descendant_of with the commit itself counted as a descendant. *)
find_unpushed_commit_v1_or_equal(repo, c) ==
    repo.base_commit_id \in Ancestors(commits, c)

find_unpushed_commit_v1(repo, c) ==
    graph_descendant_of(commits, c, repo.base_commit_id)

unpushed_commits_v1(repo) ==
    revwalk(commits, Ancestors(commits, head_commit)
                     \ Ancestors(commits, repo.base_commit_id))

(* A lookup that also finds the note of the commit a rewritten commit     *)
(* came from (the same message): as if the note had followed the rewrite.  *)
find_note_for_commit_following(c) ==
    LET same == {d \in DOMAIN notes : commits[d].message = commits[c].message}
    IN  IF c \in DOMAIN notes THEN <<notes[c]>>
        ELSE IF same # {} THEN <<notes[CHOOSE d \in same : TRUE]>>
        ELSE <<>>

find_note_for_commit(c) == IF c \in DOMAIN notes THEN <<notes[c]>> ELSE <<>>

(* The tree of the original in place of its change on top of onto. *)
cherrypick_commit_whole_tree(cs, original, onto) ==
    [tree |-> cs[original].tree, conflicts |-> {}]

cherrypick_commit(cs, original, onto) ==
    merge_trees(cs[cs[original].parents[1]].tree, cs[onto].tree, cs[original].tree)

(* commit_index without the check for conflicts in the index. *)
commit_index_ignoring_conflicts(idx, parent, message) ==
    [ok |-> TRUE, error |-> "",
     commit |-> Signed(NewCommit(idx.tree, <<parent>>, message))]

commit_index(idx, parent, message) ==
    IF idx.conflicts # {}
    THEN [ok |-> FALSE, error |-> "This commit cannot be cherry-picked",
          commit |-> Signed(NewCommit(idx.tree, <<parent>>, message))]
    ELSE [ok |-> TRUE, error |-> "",
          commit |-> Signed(NewCommit(idx.tree, <<parent>>, message))]

(* cherry_pick_commit that always commits under the original message. *)
cherry_pick_commit_plain_message(repo, cs, original, pr_head) ==
    LET complete_index == cherrypick_commit(cs, original, repo.base_commit_id)
        parent_commit == IF pr_head # NoCommit THEN pr_head ELSE repo.base_commit_id
        diff == diff_tree_to_tree(cs[parent_commit].tree, complete_index.tree)
        applied == apply_to_tree(cs[parent_commit].tree, diff)
        message == cs[original].message
        committed == commit_index([tree |-> applied.tree,
                                   conflicts |-> complete_index.conflicts],
                                  parent_commit, message)
    IN  IF DOMAIN diff = {}
        THEN [ok |-> TRUE, error |-> "", picked |-> FALSE, commit |-> committed.commit]
        ELSE IF ~applied.ok
        THEN [ok |-> FALSE, error |-> "Apply diff to parent", picked |-> FALSE,
              commit |-> committed.commit]
        ELSE [ok |-> committed.ok, error |-> committed.error, picked |-> committed.ok,
              commit |-> committed.commit]

(* cherry_pick_commit with pr_head ignored: always on top of the base. *)
cherry_pick_commit_onto_base(repo, cs, original, pr_head) ==
    LET complete_index == cherrypick_commit(cs, original, repo.base_commit_id)
        parent_commit == repo.base_commit_id
        diff == diff_tree_to_tree(cs[parent_commit].tree, complete_index.tree)
        applied == apply_to_tree(cs[parent_commit].tree, diff)
        message == IF parent_commit = repo.base_commit_id
                   THEN cs[original].message
                   ELSE "Fixup! " \o ToString(parent_commit)
        committed == commit_index([tree |-> applied.tree,
                                   conflicts |-> complete_index.conflicts],
                                  parent_commit, message)
    IN  IF DOMAIN diff = {}
        THEN [ok |-> TRUE, error |-> "", picked |-> FALSE, commit |-> committed.commit]
        ELSE IF ~applied.ok
        THEN [ok |-> FALSE, error |-> "Apply diff to parent", picked |-> FALSE,
              commit |-> committed.commit]
        ELSE [ok |-> committed.ok, error |-> committed.error, picked |-> committed.ok,
              commit |-> committed.commit]

(* cherry_pick_commit: the commit's change on top of pr_head (NoCommit:    *)
(* on top of the base); picked is FALSE when there is nothing to add.      *)
cherry_pick_commit(repo, cs, original, pr_head) ==
    LET complete_index == cherrypick_commit(cs, original, repo.base_commit_id)
        parent_commit == IF pr_head # NoCommit THEN pr_head ELSE repo.base_commit_id
        diff == diff_tree_to_tree(cs[parent_commit].tree, complete_index.tree)
        applied == apply_to_tree(cs[parent_commit].tree, diff)
        message == IF parent_commit = repo.base_commit_id
                   THEN cs[original].message
                   ELSE "Fixup! " \o ToString(parent_commit)
        committed == commit_index([tree |-> applied.tree,
                                   conflicts |-> complete_index.conflicts],
                                  parent_commit, message)
    IN  IF DOMAIN diff = {}
        THEN [ok |-> TRUE, error |-> "", picked |-> FALSE, commit |-> committed.commit]
        ELSE IF ~applied.ok
        THEN [ok |-> FALSE, error |-> "Apply diff to parent", picked |-> FALSE,
              commit |-> committed.commit]
        ELSE [ok |-> committed.ok, error |-> committed.error, picked |-> committed.ok,
              commit |-> committed.commit]

(* update without the check for an empty merged index. *)
update_without_empty_check(repo, cs, original, local_branch_head, new_parent) ==
    LET note == find_note_for_commit(original)
        branch == note[1].remote_branch_name
        remote_commit == remoteRefs[branch]
        remote_index == merge_commits(cs, local_branch_head, remote_commit)
        mc == Signed(NewCommit(remote_index.tree,
                              <<local_branch_head, remote_commit>>, "Merge"))
        cs1 == Store(cs, mc)
        diff == diff_tree_to_tree(cs[repo.base_commit_id].tree, remote_index.tree)
        applied == apply_to_tree(cs[new_parent].tree, diff)
        committed == commit_index([tree |-> applied.tree, conflicts |-> {}],
                                  new_parent, cs[original].message)
        failed(error, store) ==
            [ok |-> FALSE, error |-> error, commits |-> store, new_commit |-> NoCommit]
    IN  IF note = <<>> THEN failed("unwrap on None", cs)
        ELSE IF branch \notin DOMAIN remoteRefs THEN failed("Find the remote branch", cs)
        ELSE IF remote_index.conflicts # {} THEN failed("Index has conflicts", cs)
        ELSE IF ~applied.ok THEN failed("apply_to_tree", cs1)
        ELSE IF ~committed.ok THEN failed(committed.error, cs1)
        ELSE [ok |-> TRUE, error |-> "",
              commits |-> Store(cs1, committed.commit),
              new_commit |-> CommitId(cs1, committed.commit)]

(* update with the remote tip taken in place of the merge. *)
update_taking_remote(repo, cs, original, local_branch_head, new_parent) ==
    LET note == find_note_for_commit(original)
        branch == note[1].remote_branch_name
        remote_commit == remoteRefs[branch]
        remote_index == [tree |-> cs[remote_commit].tree, conflicts |-> {}]
        mc == Signed(NewCommit(remote_index.tree,
                              <<local_branch_head, remote_commit>>, "Merge"))
        cs1 == Store(cs, mc)
        diff == diff_tree_to_tree(cs[repo.base_commit_id].tree, remote_index.tree)
        applied == apply_to_tree(cs[new_parent].tree, diff)
        committed == commit_index([tree |-> applied.tree, conflicts |-> {}],
                                  new_parent, cs[original].message)
        failed(error, store) ==
            [ok |-> FALSE, error |-> error, commits |-> store, new_commit |-> NoCommit]
    IN  IF note = <<>> THEN failed("unwrap on None", cs)
        ELSE IF branch \notin DOMAIN remoteRefs THEN failed("Find the remote branch", cs)
        ELSE IF remote_index.conflicts # {} THEN failed("Index has conflicts", cs)
        ELSE IF remote_index.tree = EmptyTree THEN failed("Index is empty", cs)
        ELSE IF ~applied.ok THEN failed("apply_to_tree", cs1)
        ELSE IF ~committed.ok THEN failed(committed.error, cs1)
        ELSE [ok |-> TRUE, error |-> "",
              commits |-> Store(cs1, committed.commit),
              new_commit |-> CommitId(cs1, committed.commit)]

(* update: merge the local image of the remote branch with the remote tip, *)
(* re-apply the result as a diff against the base onto new_parent, commit  *)
(* it under the original message and move the branch to the new commit.    *)
update(repo, cs, original, local_branch_head, new_parent) ==
    LET note == find_note_for_commit(original)
        branch == note[1].remote_branch_name
        remote_commit == remoteRefs[branch]
        remote_index == merge_commits(cs, local_branch_head, remote_commit)
        mc == Signed(NewCommit(remote_index.tree,
                              <<local_branch_head, remote_commit>>, "Merge"))
        cs1 == Store(cs, mc)
        diff == diff_tree_to_tree(cs[repo.base_commit_id].tree, remote_index.tree)
        applied == apply_to_tree(cs[new_parent].tree, diff)
        committed == commit_index([tree |-> applied.tree, conflicts |-> {}],
                                  new_parent, cs[original].message)
        failed(error, store) ==
            [ok |-> FALSE, error |-> error, commits |-> store, new_commit |-> NoCommit]
    IN  IF note = <<>> THEN failed("unwrap on None", cs)
        ELSE IF branch \notin DOMAIN remoteRefs THEN failed("Find the remote branch", cs)
        ELSE IF remote_index.conflicts # {} THEN failed("Index has conflicts", cs)
        ELSE IF remote_index.tree = EmptyTree THEN failed("Index is empty", cs)
        ELSE IF ~applied.ok THEN failed("apply_to_tree", cs1)
        ELSE IF ~committed.ok THEN failed(committed.error, cs1)
        ELSE [ok |-> TRUE, error |-> "",
              commits |-> Store(cs1, committed.commit),
              new_commit |-> CommitId(cs1, committed.commit)]

(* pull: open the repository and walk the stack oldest first. *)
PullStart ==
    /\ pc = "idle"
    /\ cmds < MaxCmds
    /\ cmds' = cmds + 1
    /\ LET o == open_v1
       IN  /\ config' = o.config
           /\ IF ~o.ok
              THEN /\ Finish(Failure(o.error))
                   /\ hist' = StartHist("pull", <<>>)
              ELSE /\ pc' = "pull"
                   /\ handle' = o.repo
                   /\ pred' = o.repo.base_commit_id
                   /\ todo' = unpushed_commits_v1(o.repo)
                   /\ hist' = StartHist("pull", unpushed_commits_v1(o.repo))
                   /\ UNCHANGED <<cur, merged, result>>
    /\ UNCHANGED <<commits, notes, remoteRefs, localBranch, head, index, syncFile>>

(* One stack element of pull.  A commit without a note keeps its place on  *)
(* top of the reconciled predecessor.  A tracked commit has its local      *)
(* changes cherry-picked onto the commit it was published as, and update   *)
(* reconciles the result with the remote tip.                              *)
PullNext ==
    /\ pc = "pull"
    /\ todo # <<>>
    /\ LET c == Head(todo)
           r == Reparented(commits, c, commits[c].tree, pred)
           note == find_note_for_commit(c)
           pr_head == find_local_branch_commit(note[1])
           picked == cherry_pick_commit(handle, commits, c, pr_head)
           cs1 == IF picked.picked THEN Store(commits, picked.commit) ELSE commits
           local_branch_head == IF picked.picked
                                THEN CommitId(commits, picked.commit)
                                ELSE pr_head
           u == update(handle, cs1, c, local_branch_head, pred)
       IN  IF note = <<>>
           THEN /\ commits' = Store(commits, r.commit)
                /\ pred' = CommitId(commits, r.commit)
                /\ todo' = Tail(todo)
                /\ hist' = [hist EXCEPT !.done = Append(@, c)]
                /\ UNCHANGED <<localBranch, head, pc, handle, cur, merged, result>>
           ELSE IF pr_head = NoCommit
           THEN /\ Finish(Failure("RemoteBranchMissing"))
                /\ UNCHANGED <<commits, localBranch, head, hist>>
           ELSE IF ~picked.ok
           THEN /\ Finish(Failure(picked.error))
                /\ UNCHANGED <<commits, localBranch, head, hist>>
           ELSE IF ~u.ok
           THEN /\ commits' = u.commits
                /\ Finish(Outcome(u.error, c,
                                  IF note[1].remote_branch_name \in DOMAIN remoteRefs
                                  THEN remoteRefs[note[1].remote_branch_name]
                                  ELSE NoCommit))
                /\ UNCHANGED <<localBranch, head, hist>>
           ELSE /\ commits' = u.commits
                /\ localBranch' = u.new_commit
                /\ head' = [detached |-> FALSE, id |-> NoCommit]
                /\ pred' = u.new_commit
                /\ todo' = Tail(todo)
                /\ hist' = [hist EXCEPT !.done = Append(@, c), !.moves = @ + 1]
                /\ UNCHANGED <<pc, handle, cur, merged, result>>
    /\ UNCHANGED <<notes, remoteRefs, index, syncFile, config, cmds>>

PullDone ==
    /\ pc = "pull"
    /\ todo = <<>>
    /\ Finish(Ok)
    /\ UNCHANGED <<commits, notes, remoteRefs, localBranch, head, index, syncFile,
                   config, cmds, hist>>

InitPull == InitWith(TRUE)

NextPull == PullStart \/ PullNext \/ PullDone

SpecPull == InitPull /\ [][NextPull]_vars

(* A remote branch is deleted on the remote and the deletion is fetched    *)
(* (git fetch --prune): the remote-tracking branch is gone, the commits    *)
(* and the notes stay.                                                     *)
DeleteRemoteBranch ==
    /\ pc = "idle"
    /\ \E b \in DOMAIN remoteRefs \ {CurrentBranch} :
         remoteRefs' = [x \in DOMAIN remoteRefs \ {b} |-> remoteRefs[x]]
    /\ UNCHANGED <<commits, notes, localBranch, head, index, syncFile, config, pc,
                   handle, todo, pred, cur, merged, result, cmds, hist>>

NextPruned == NextPull \/ DeleteRemoteBranch

SpecPruned == InitPull /\ [][NextPruned]_vars

(* pull over the repositories that may also hold an empty published commit. *)
InitPullEmpty == InitOver(Shapes \cup {EmptyCommitShape}, TRUE)

SpecPullEmpty == InitPullEmpty /\ [][NextPull]_vars

-----------------------------------------------------------------------------
(* Publishing (create), older revision: the commit's change is cherry      *)
(* picked onto the base, or added as a fixup on top of the commit it was   *)
(* published as; a new commit is pushed to the commit's remote branch and  *)
(* recorded in its note.                                                   *)

BranchOf(c) == PrBranch(CHOOSE k \in Elems : commits[c].message = MessageOf(k))

(* git push of new to origin/branch: rejected unless it is a fast-forward. *)
push(cs, refs, branch, new) ==
    IF branch \in DOMAIN refs /\ refs[branch] \notin Ancestors(cs, new)
    THEN [ok |-> FALSE, refs |-> refs]
    ELSE [ok |-> TRUE,
          refs |-> [b \in DOMAIN refs \cup {branch} |->
                      IF b = branch THEN new ELSE refs[b]]]

UpToDate == [Ok EXCEPT !.message = <<"Already up to date">>]

Create ==
    /\ pc = "idle"
    /\ cmds < MaxCmds
    /\ cmds' = cmds + 1
    /\ \E c \in Ancestors(commits, localBranch) :
         LET o == open_v1
             note == find_note_for_commit(c)
             branch == IF note # <<>> THEN note[1].remote_branch_name ELSE BranchOf(c)
             pr_head == IF note # <<>> THEN find_local_branch_commit(note[1])
                        ELSE NoCommit
             r == cherry_pick_commit(o.repo, commits, c, pr_head)
             cs1 == Store(commits, r.commit)
             new == CommitId(commits, r.commit)
             pushed == push(cs1, remoteRefs, branch, new)
             fail(error) ==
                 /\ Finish(Failure(error))
                 /\ hist' = StartHist("create", <<c>>)
                 /\ UNCHANGED <<commits, notes, remoteRefs>>
         IN  /\ config' = o.config
             /\ IF ~o.ok THEN fail(o.error)
                ELSE IF ~find_unpushed_commit_v1(o.repo, c) THEN fail("AlreadyPushed")
                ELSE IF note = <<>> /\ branch \in DOMAIN remoteRefs
                THEN fail("BranchExists")
                ELSE IF ~r.ok THEN fail(r.error)
                ELSE IF ~r.picked
                THEN /\ Finish(UpToDate)
                     /\ hist' = StartHist("create", <<c>>)
                     /\ UNCHANGED <<commits, notes, remoteRefs>>
                ELSE IF ~pushed.ok
                THEN /\ commits' = cs1
                     /\ Finish(Failure("push rejected"))
                     /\ hist' = StartHist("create", <<c>>)
                     /\ UNCHANGED <<notes, remoteRefs>>
                ELSE /\ commits' = cs1
                     /\ remoteRefs' = pushed.refs
                     /\ notes' = save_meta_data(notes, c, CommitMetadata(branch, new))
                     /\ Finish(Ok)
                     /\ hist' = [StartHist("create", <<c>>) EXCEPT !.done = <<new>>]
    /\ UNCHANGED <<localBranch, head, index, syncFile>>

(* The user amends the commit at the head of the branch (git commit        *)
(* --amend): the engine copies the note to the rewritten commit when       *)
(* notes.rewriteRef is configured.                                         *)
AmendSlots(k) == {FixSlot(k), SideSlot(k)}

Amend ==
    /\ pc = "idle"
    /\ ~head.detached
    /\ syncFile = <<>>
    /\ \E k \in Elems : \E s \in AmendSlots(k) :
         LET old == commits[localBranch]
             amended == [old EXCEPT !.tree[s] = "local"]
             new == CommitId(commits, amended)
         IN  /\ old.message = MessageOf(k)
             /\ old.tree[s] = "-"
             /\ commits' = Store(commits, amended)
             /\ localBranch' = new
             /\ index' = [tree |-> amended.tree, conflicts |-> {}]
             /\ notes' = IF IsTracked(localBranch) /\ "notes.rewriteRef" \in config
                         THEN save_meta_data(notes, new, notes[localBranch])
                         ELSE notes
             /\ hist' = [StartHist("amend", <<localBranch>>) EXCEPT !.done = <<new>>]
    /\ UNCHANGED <<remoteRefs, head, syncFile, config, pc, handle, todo, pred, cur,
                   merged, result, cmds>>

NextPublish == NextPull \/ Create \/ Amend

SpecPublish == InitPull /\ [][NextPublish]_vars

(* The user amends the commit at the head of the branch so that it edits   *)
(* content a commit below it in the stack introduced: the change of the    *)
(* commit then no longer applies to the base commit on its own.            *)
AmendDependent ==
    /\ pc = "idle"
    /\ ~head.detached
    /\ syncFile = <<>>
    /\ \E k \in Elems : \E j \in 1..(k - 1) :
         LET old == commits[localBranch]
             s == FeatSlot(j)
             amended == [old EXCEPT !.tree[s] = "local"]
             new == CommitId(commits, amended)
         IN  /\ old.message = MessageOf(k)
             /\ old.tree[s] = "feat"
             /\ commits[old.parents[1]].tree[s] = "feat"
             /\ commits' = Store(commits, amended)
             /\ localBranch' = new
             /\ index' = [tree |-> amended.tree, conflicts |-> {}]
             /\ notes' = IF IsTracked(localBranch) /\ "notes.rewriteRef" \in config
                         THEN save_meta_data(notes, new, notes[localBranch])
                         ELSE notes
             /\ hist' = [StartHist("amend", <<localBranch>>) EXCEPT !.done = <<new>>]
    /\ UNCHANGED <<remoteRefs, head, syncFile, config, pc, handle, todo, pred, cur,
                   merged, result, cmds>>

NextDependent == Create \/ Amend \/ AmendDependent

SpecDependent == InitPull /\ [][NextDependent]_vars

-----------------------------------------------------------------------------
(* Publishing (create), unibranch revision: the candidate is the commit's  *)
(* change on top of the remote base, or on top of the remote branch of a   *)
(* published parent; it is committed on the remote branch with the         *)
(* signatures of the original, pushed, and the note records the branch     *)
(* name only.                                                              *)
(* The note records the pushed commit as remote-commit. *)
PublishedMetadata_pinned(branch, new) == CommitMetadata(branch, new)

PublishedMetadata(branch, new) == CommitMetadata(branch, NoCommit)

PublishOnto(repo, c) ==
    LET parent == commits[c].parents[1]
    IN  IF /\ IsTracked(parent)
           /\ notes[parent].remote_branch_name \in DOMAIN remoteRefs
        THEN remoteRefs[notes[parent].remote_branch_name]
        ELSE base_commit(repo)

Publish ==
    /\ pc = "idle"
    /\ cmds < MaxCmds
    /\ cmds' = cmds + 1
    /\ \E c \in Ancestors(commits, head_commit) :
         LET o == open
             tracked == IsTracked(c)
             branch == IF tracked THEN notes[c].remote_branch_name ELSE BranchOf(c)
             onto == PublishOnto(o.repo, c)
             candidate == merge_trees(commits[commits[c].parents[1]].tree,
                                      commits[onto].tree, commits[c].tree)
             target == IF branch \in DOMAIN remoteRefs THEN remoteRefs[branch] ELSE onto
             commit == [NewCommit(candidate.tree, <<target>>, commits[c].message)
                          EXCEPT !.time = commits[c].time]
             new == CommitId(commits, commit)
             cs1 == Store(commits, commit)
             pushed == push(cs1, remoteRefs, branch, new)
             fail(error) ==
                 /\ Finish(Failure(error))
                 /\ hist' = StartHist("create", <<c>>)
                 /\ UNCHANGED <<commits, notes, remoteRefs>>
         IN  /\ config' = o.config
             /\ IF ~o.ok THEN fail(o.error)
                ELSE IF ~find_unpushed_commit(o.repo, c) THEN fail("AlreadyPushed")
                ELSE IF ~tracked /\ branch \in DOMAIN remoteRefs
                THEN fail("BranchExists")
                ELSE IF candidate.conflicts # {} THEN fail("CherryPickConflict")
                ELSE IF candidate.tree = commits[target].tree
                THEN /\ Finish(UpToDate)
                     /\ hist' = StartHist("create", <<c>>)
                     /\ UNCHANGED <<commits, notes, remoteRefs>>
                ELSE IF ~pushed.ok
                THEN /\ commits' = cs1
                     /\ Finish(Failure("push rejected"))
                     /\ hist' = StartHist("create", <<c>>)
                     /\ UNCHANGED <<notes, remoteRefs>>
                ELSE /\ commits' = cs1
                     /\ remoteRefs' = pushed.refs
                     /\ notes' = save_meta_data(notes, c, PublishedMetadata(branch, new))
                     /\ Finish(Ok)
                     /\ hist' = [StartHist("create", <<c>>) EXCEPT !.done = <<new>>]
    /\ UNCHANGED <<localBranch, head, index, syncFile>>

(* The user detaches HEAD at the current commit (git checkout --detach). *)
DetachHead ==
    /\ pc = "idle"
    /\ ~head.detached
    /\ head' = [detached |-> TRUE, id |-> localBranch]
    /\ UNCHANGED <<commits, notes, remoteRefs, localBranch, index, syncFile, config,
                   pc, handle, todo, pred, cur, merged, result, cmds, hist>>

NextTool == Next \/ Publish \/ Amend

SpecTool == Init /\ [][NextTool]_vars

(* remove_meta_data: note_delete fails when the commit has no note. *)
remove_meta_data(ns, c) ==
    IF c \in DOMAIN ns
    THEN [ok |-> TRUE, error |-> "", notes |-> [i \in DOMAIN ns \ {c} |-> ns[i]]]
    ELSE [ok |-> FALSE, error |-> "NotFound", notes |-> ns]

(* A call of remove_meta_data on a commit of the stack. *)
RemoveMetaData ==
    /\ pc = "idle"
    /\ cmds < MaxCmds
    /\ cmds' = cmds + 1
    /\ \E c \in Ancestors(commits, localBranch) \ Ancestors(commits, remoteRefs[CurrentBranch]) :
         LET r == remove_meta_data(notes, c)
         IN  /\ notes' = r.notes
             /\ Finish(IF r.ok THEN Ok ELSE Failure(r.error))
             /\ hist' = StartHist("remove", <<c>>)
    /\ UNCHANGED <<commits, remoteRefs, localBranch, head, index, syncFile, config>>

NextNotes == Next \/ RemoveMetaData

SpecNotes == Init /\ [][NextNotes]_vars

(* A step of update_current_branch returns an error (a locked ref, an I/O  *)
(* error): the function returns it at once, and so does the command.       *)
UpdateBranchError ==
    [walk |-> "checkout_tree",
     ucb_detach |-> "Detach HEAD before moving the main branch",
     ucb_branch |-> "Moving the main branch pointer",
     ucb_set_head |-> "Moving HEAD back to main branch"]

UpdateBranchStepFails ==
    /\ pc \in DOMAIN UpdateBranchError
    /\ pc = "walk" => todo = <<>> /\ handle.git_command_option # "DryRun"
    /\ Finish(Failure(UpdateBranchError[pc]))
    /\ UNCHANGED <<commits, notes, remoteRefs, localBranch, head, index, syncFile,
                   config, cmds, hist>>

NextFaulty == Next \/ UpdateBranchStepFails

SpecFaulty == Init /\ [][NextFaulty]_vars

(* The process ends inside save_sync_state, after File::create_new has     *)
(* created the file and before the state is written to it.                *)
SaveStateKilled ==
    /\ pc = "save_state"
    /\ save_sync_state(Truncated).ok
    /\ syncFile' = save_sync_state(Truncated).file
    /\ Finish(Failure("killed"))
    /\ UNCHANGED <<commits, notes, remoteRefs, localBranch, head, index, config,
                   cmds, hist>>

NextTruncated == NextStale \/ SaveStateKilled

SpecTruncated == Init /\ [][NextTruncated]_vars

(* The process is killed between two steps of a run: what it held in      *)
(* memory is gone, the repository and the Sync State file are as the last  *)
(* completed step left them.                                               *)
Kill ==
    /\ pc # "idle"
    /\ Finish(Failure("killed"))
    /\ UNCHANGED <<commits, notes, remoteRefs, localBranch, head, index, syncFile,
                   config, cmds, hist>>

NextKilled == NextStale \/ Kill

SpecKilled == Init /\ [][NextKilled]_vars

(* A fresh sync opened in any of the three modes of CommandOption. *)
CommandOption == {"Default", "Silent", "DryRun"}

StartSyncIn ==
    /\ syncFile = <<>>
    /\ pc = "idle"
    /\ cmds < MaxCmds
    /\ cmds' = cmds + 1
    /\ \E option \in CommandOption :
         LET o == open_with_remote(option)
         IN  /\ config' = o.config
             /\ IF ~o.ok
                THEN /\ Finish(Failure(o.error))
                     /\ hist' = StartHist("sync", <<>>)
                ELSE /\ pc' = "walk"
                     /\ handle' = o.repo
                     /\ pred' = base_commit(o.repo)
                     /\ todo' = unpushed_commits(o.repo)
                     /\ hist' = StartHist("sync", unpushed_commits(o.repo))
                     /\ UNCHANGED <<cur, merged, result>>
    /\ UNCHANGED <<commits, notes, remoteRefs, localBranch, head, index, syncFile>>

NextModes == Next \/ StartSyncIn

SpecModes == Init /\ [][NextModes]_vars

NextDetach == Next \/ DetachHead

SpecDetach == Init /\ [][NextDetach]_vars

-----------------------------------------------------------------------------
(* Vocabulary of the properties, over a snapshot of the repository. *)

BaseOf(snap) == snap.remoteRefs[CurrentBranch]

(* The stack of a snapshot, oldest first: the chain of first parents from  *)
(* the branch head down to the base commit, reversed.                      *)
RECURSIVE ChainDown(_, _, _)
ChainDown(cs, c, base) ==
    IF c = base \/ cs[c].parents = <<>> THEN <<>>
    ELSE Append(ChainDown(cs, cs[c].parents[1], base), c)

StackOf(snap) == ChainDown(snap.commits, snap.localBranch, BaseOf(snap))

TrackedIn(snap, c) == c \in DOMAIN snap.notes

TipOf(snap, c) == snap.remoteRefs[snap.notes[c].remote_branch_name]

ConflictsIn(snap, c) ==
    /\ TrackedIn(snap, c)
    /\ \E s \in Slots :
         LET b == snap.commits[BaseOf(snap)].tree[s]
             l == snap.commits[c].tree[s]
             r == snap.commits[TipOf(snap, c)].tree[s]
         IN  l # r /\ l # b /\ r # b

(* The content of a fully reconciled stack: in every region the remote     *)
(* branch of a tracked element changed, the remote content; elsewhere the  *)
(* content of the local head.                                              *)
ReconciledTree(snap) ==
    LET stack == StackOf(snap)
        base == snap.commits[BaseOf(snap)].tree
        changed(s) == {i \in DOMAIN stack :
                          /\ TrackedIn(snap, stack[i])
                          /\ snap.commits[TipOf(snap, stack[i])].tree[s] # base[s]}
    IN  [s \in Slots |->
           IF changed(s) # {}
           THEN snap.commits[TipOf(snap, stack[CHOOSE i \in changed(s) : TRUE])].tree[s]
           ELSE snap.commits[snap.localBranch].tree[s]]

Messages(cs, stack) == [i \in DOMAIN stack |-> cs[stack[i]].message]

-----------------------------------------------------------------------------
(* C1: a fresh sync walks the stack oldest first (what it has processed is *)
(* always a prefix of the stack) and moves the branch at most once; it     *)
(* ends either with the branch moved exactly once to a stack of the same N *)
(* messages whose tree holds every element's local and remote changes, or  *)
(* with MergeConflict at the first conflicting element k, the branch still *)
(* at the original stack and exactly one Sync State persisted, for k.      *)
C1_AllOrFirstConflict ==
    hist.kind = "sync" =>
        LET before == hist.before
            stack == StackOf(before)
            k == Len(hist.done) + 1
        IN  /\ hist.done = SubSeq(stack, 1, Len(hist.done))
            /\ hist.moves <= 1
            /\ pc = "idle" =>
                 \/ /\ result.kind = "ok"
                    /\ hist.moves = 1
                    /\ hist.done = stack
                    /\ syncFile = <<>>
                    /\ Messages(commits, StackOf(Snapshot)) = Messages(commits, stack)
                    /\ commits[localBranch].tree = ReconciledTree(before)
                 \/ /\ result.kind = "MergeConflict"
                    /\ hist.moves = 0
                    /\ localBranch = before.localBranch
                    /\ k <= Len(stack)
                    /\ ConflictsIn(before, stack[k])
                    /\ \A j \in 1..(k - 1) : ~ConflictsIn(before, stack[j])
                    /\ Len(syncFile) = 1
                    /\ syncFile[1].main_commit_id = stack[k]

C1_Witness ==
    /\ pc = "idle"
    /\ hist.kind = "sync"
    /\ result.kind = "MergeConflict"
    /\ Len(hist.done) >= 1
    /\ Len(syncFile) = 1

-----------------------------------------------------------------------------
(* C2: during a run the branch ref is moved only after the last stack      *)
(* element has been reconciled (while an element is still to be walked or  *)
(* the interrupted one is still being finished, the branch is where it was *)
(* when the run began), and a run that halts on a conflict leaves the      *)
(* branch ref unchanged.                                                   *)
ElementsPending ==
    /\ pc # "idle"
    /\ \/ todo # <<>>
       \/ pc \in {"finish_merge", "fm_cleanup", "fm_cont"}

HaltedOnConflict ==
    /\ pc = "idle"
    /\ result.kind \in {"MergeConflict", "Index has conflicts"}

C2_BranchMovedOnlyAtEnd ==
    hist.kind \in {"sync", "continue", "pull"} =>
        /\ ElementsPending =>
             hist.moves = 0 /\ localBranch = hist.before.localBranch
        /\ HaltedOnConflict =>
             hist.moves = 0 /\ localBranch = hist.before.localBranch

-----------------------------------------------------------------------------
(* C3: at most one Sync State is persisted at any time; a persisted record *)
(* is never replaced by another one (it stays or it is deleted), and an    *)
(* attempt to save while one is persisted fails and leaves it unchanged.   *)
SaveAttemptFails ==
    (pc = "save_state" /\ syncFile # <<>>) =>
        (syncFile' = syncFile /\ result'.kind = "AlreadyExists")

RecordNotReplaced ==
    syncFile # <<>> => (syncFile' = syncFile \/ syncFile' = <<>>)

C3_AtMostOneSyncState ==
    /\ [](Len(syncFile) <= 1)
    /\ [][SaveAttemptFails /\ RecordNotReplaced]_vars

C3_Witness ==
    /\ pc = "idle"
    /\ result.kind = "AlreadyExists"
    /\ Len(syncFile) = 1
    /\ cur = NoElement

-----------------------------------------------------------------------------
(* C4: when a run halts on a merge conflict at stack element k, the one    *)
(* persisted Sync State names local commit k as main_commit_id, the tip of *)
(* k's remote branch as remote_commit_id, the predecessor of k in the      *)
(* stack as main_commit_parent_id (the base commit when k is first, else   *)
(* the commit standing for element k-1 on a chain of k-1 commits above the *)
(* base) and the current branch; no element after k has been processed     *)
(* and no commit has been written for one.                                 *)
PredecessorOf(snap, stack, k, parent) ==
    IF k = 1
    THEN parent = BaseOf(snap)
    ELSE /\ parent \in DOMAIN commits
         /\ commits[parent].message = commits[stack[k - 1]].message
         /\ Len(ChainDown(commits, parent, BaseOf(snap))) = k - 1

LaterUntouched(snap, stack, k) ==
    /\ \A j \in (k + 1)..Len(stack) :
         \A i \in DOMAIN hist.done : hist.done[i] # stack[j]
    /\ \A c \in DOMAIN commits \ DOMAIN snap.commits :
         \A j \in (k + 1)..Len(stack) :
           commits[c].message # commits[stack[j]].message

-----------------------------------------------------------------------------
(* C5: a run in which the merge of a tracked local commit with the tip of  *)
(* its remote branch conflicted (the run persisted a Sync State for that   *)
(* commit) does not return success: it returns MergeConflict, and the      *)
(* error text names the local commit, the remote tip and the resume        *)
(* command 'ubr sync --continue'.                                          *)
ConflictedRun ==
    /\ pc = "idle"
    /\ hist.kind \in {"sync", "continue"}
    /\ syncFile # <<>>
    /\ syncFile # hist.before.syncFile

C5_MergeConflictError ==
    ConflictedRun =>
        LET local == syncFile[1].main_commit_id
            remote == TipOf(hist.before, local)
        IN  /\ result.kind # "ok"
            /\ result.kind = "MergeConflict"
            /\ result.local = local
            /\ result.remote = remote
            /\ local # remote
            /\ result.message[2] = local
            /\ result.message[4] = remote
            /\ result.message[Len(result.message)] = ResumeHint

C5_Witness ==
    /\ ConflictedRun
    /\ hist.kind = "continue"
    /\ result.kind = "MergeConflict"

-----------------------------------------------------------------------------
(* C6: a resume run started with a persisted Sync State and an index with  *)
(* no conflicted entries commits the resolved tree as the merge commit     *)
(* (parents: the HEAD commit and the recorded remote commit) and deletes   *)
(* the Sync State only after that: in every state where the resume has     *)
(* removed the record it started from, the merge commit exists.  The run   *)
(* succeeds, leaving no Sync State, unless a later stack element conflicts *)
(* in the continued walk; then it returns MergeConflict and the one        *)
(* persisted record is the later element's.                                *)
ResumeRun ==
    /\ hist.kind = "continue"
    /\ hist.before.syncFile # <<>>

MergeCommitExists ==
    \E c \in DOMAIN commits :
        /\ commits[c].message = "Merge"
        /\ commits[c].tree = hist.before.index.tree
        /\ commits[c].parents = <<hist.before.localBranch,
                                  hist.before.syncFile[1].remote_commit_id>>

C6_ResumeCommitsThenDeletes ==
    ResumeRun =>
        /\ syncFile # hist.before.syncFile => MergeCommitExists
        /\ (pc = "idle" /\ hist.before.index.conflicts = {}) =>
             /\ MergeCommitExists
             /\ \/ result.kind = "ok" /\ syncFile = <<>>
                \/ /\ result.kind = "MergeConflict"
                   /\ Len(syncFile) = 1
                   /\ syncFile[1].main_commit_id # hist.before.syncFile[1].main_commit_id
                   /\ syncFile[1].main_commit_id \in
                        {hist.stack[i] : i \in DOMAIN hist.stack}

C6_Witness ==
    /\ ResumeRun
    /\ pc = "idle"
    /\ hist.before.index.conflicts = {}
    /\ result.kind = "ok"
    /\ syncFile = <<>>
    /\ MergeCommitExists

(* C6 as stated: every resume run started with a persisted Sync State and  *)
(* an index with no conflicted entries succeeds and leaves no Sync State.  *)
C6_ResumeAlwaysSucceeds ==
    (ResumeRun /\ pc = "idle" /\ hist.before.index.conflicts = {}) =>
        (result.kind = "ok" /\ syncFile = <<>> /\ MergeCommitExists)

-----------------------------------------------------------------------------
(* C7: a resume run given when no Sync State is persisted fails with       *)
(* NoSyncInProgress, and commits, branch ref, HEAD, notes, remote-tracking *)
(* refs, index and persisted state are what they were before the call, at  *)
(* the end of the run and at every point of it.                            *)
ResumeWithoutState ==
    /\ hist.kind = "continue"
    /\ hist.before.syncFile = <<>>

C7_NoSyncInProgress ==
    ResumeWithoutState =>
        /\ Snapshot = hist.before
        /\ pc = "idle"
        /\ result.kind = "NoSyncInProgress"

C7_Witness ==
    /\ ResumeWithoutState
    /\ pc = "idle"
    /\ result.kind = "NoSyncInProgress"
    /\ hist.prev = "sync"

-----------------------------------------------------------------------------
(* C8: finish_merge invoked while the index still has conflicted entries   *)
(* fails with an error; no merge commit (no commit at all) is created and  *)
(* the persisted Sync State stays as it was.                               *)
ResumeUnresolved ==
    /\ ResumeRun
    /\ hist.before.index.conflicts # {}

C8_UnresolvedIndexFails ==
    ResumeUnresolved =>
        /\ commits = hist.before.commits
        /\ syncFile = hist.before.syncFile
        /\ localBranch = hist.before.localBranch
        /\ pc \in {"finish_merge", "idle"}
        /\ pc = "idle" => result.kind = "Unmerged"

C8_Witness ==
    /\ ResumeUnresolved
    /\ pc = "idle"
    /\ result.kind = "Unmerged"
    /\ Len(syncFile) = 1

-----------------------------------------------------------------------------
(* C9: a resume run that ends without a further conflict leaves the branch *)
(* at the tree a conflict-free sync produces for the same stack and remote *)
(* tips when the merge of the interrupted commit yields the resolved       *)
(* content: every element from the interrupted one on is folded, oldest    *)
(* first, onto the recorded predecessor, each as the diff from its parent  *)
(* to its merged content.  When the predecessor is the base commit this is *)
(* the reconciled tree of the stack with the resolved content in the       *)
(* regions that conflicted.                                                *)
RECURSIVE ConflictFreeFold(_, _, _, _)
ConflictFreeFold(snap, stack, i, tree) ==
    IF i > Len(stack) THEN tree
    ELSE LET c == stack[i]
             cs == snap.commits
             content == IF c = snap.syncFile[1].main_commit_id
                        THEN snap.index.tree
                        ELSE IF TrackedIn(snap, c)
                        THEN merge_commits(cs, c, TipOf(snap, c)).tree
                        ELSE cs[c].tree
             diff == diff_tree_to_tree(cs[cs[c].parents[1]].tree, content)
         IN  ConflictFreeFold(snap, stack, i + 1, apply_to_tree(tree, diff).tree)

ConflictFreeTree(snap) ==
    LET stack == StackOf(snap)
        state == snap.syncFile[1]
        k == CHOOSE i \in DOMAIN stack : stack[i] = state.main_commit_id
    IN  ConflictFreeFold(snap, stack, k,
                         snap.commits[state.main_commit_parent_id].tree)

ConflictSlots(snap) ==
    LET c == snap.syncFile[1].main_commit_id
    IN  merge_commits(snap.commits, c, TipOf(snap, c)).conflicts

ResolvedReconciledTree(snap) ==
    [s \in Slots |-> IF s \in ConflictSlots(snap)
                     THEN snap.index.tree[s]
                     ELSE ReconciledTree(snap)[s]]

ResumeDone ==
    /\ ResumeRun
    /\ pc = "idle"
    /\ result.kind = "ok"

C9_ResumeEqualsConflictFree ==
    ResumeDone =>
        /\ commits[localBranch].tree = ConflictFreeTree(hist.before)
        /\ hist.before.syncFile[1].main_commit_parent_id = BaseOf(hist.before) =>
             commits[localBranch].tree = ResolvedReconciledTree(hist.before)
        /\ Messages(commits, StackOf(Snapshot))
             = Messages(commits, StackOf(hist.before))

C9_Witness ==
    /\ ResumeDone
    /\ Len(StackOf(hist.before)) = 2
    /\ hist.before.syncFile[1].main_commit_id = StackOf(hist.before)[1]
    /\ commits[localBranch].tree[FixSlot(1)] = "resolved"
    /\ commits[localBranch].tree[FixSlot(2)] = "remote"

-----------------------------------------------------------------------------
(* C10: a run that follows a successful run of the same command, with no   *)
(* remote update in between, changes nothing: at every point of it and at  *)
(* its end the current branch, the commits of the stack and the metadata   *)
(* are those the first run left, and it succeeds.                          *)
SecondRun ==
    /\ hist.kind \in {"sync", "pull"}
    /\ hist.prev = hist.kind

-----------------------------------------------------------------------------
(* C11: publishing again a commit that is already published and has not   *)
(* changed since (its own change is the change its remote branch carries   *)
(* over the base, and the branch is where the publish left it) is a        *)
(* no-op: the run reports "Already up to date", no commit is created, no   *)
(* remote branch moves and the metadata is unchanged.                      *)
OwnChange(cs, c) == diff_tree_to_tree(cs[cs[c].parents[1]].tree, cs[c].tree)

PublishedUnchanged(snap, c) ==
    /\ c \in DOMAIN snap.notes
    /\ graph_descendant_of(snap.commits, c, BaseOf(snap))
    /\ snap.notes[c].remote_branch_name \in DOMAIN snap.remoteRefs
    /\ snap.notes[c].remote_commit = snap.remoteRefs[snap.notes[c].remote_branch_name]
    /\ OwnChange(snap.commits, c)
         = diff_tree_to_tree(snap.commits[BaseOf(snap)].tree,
                             snap.commits[snap.notes[c].remote_commit].tree)

Republished ==
    /\ hist.kind = "create"
    /\ pc = "idle"
    /\ PublishedUnchanged(hist.before, hist.stack[1])

C11_RepublishIsNoOp ==
    Republished =>
        /\ result = UpToDate
        /\ commits = hist.before.commits
        /\ remoteRefs = hist.before.remoteRefs
        /\ notes = hist.before.notes

C11_Witness ==
    /\ Republished
    /\ hist.prev = "create"
    /\ result = UpToDate
    /\ commits[notes[hist.stack[1]].remote_commit].time > 0

-----------------------------------------------------------------------------
(* C12: when pull has reconciled a published commit (amended locally or    *)
(* not) whose remote branch received a change, the commit it wrote for it  *)
(* contains the local changes and the remote change under the message of   *)
(* the original, the current branch points to that new commit, and no      *)
(* remote-tracking branch has moved.                                       *)
RemoteChanged(snap, c) ==
    /\ TrackedIn(snap, c)
    /\ snap.notes[c].remote_branch_name \in DOMAIN snap.remoteRefs
    /\ snap.commits[TipOf(snap, c)].tree # snap.commits[snap.notes[c].remote_commit].tree

(* The position of the published commit pull reconciled last. *)
LastUpdated ==
    {i \in DOMAIN hist.done :
        /\ TrackedIn(hist.before, hist.done[i])
        /\ \A j \in DOMAIN hist.done : j > i => ~TrackedIn(hist.before, hist.done[j])}

UpdatedRemoteChange(i) ==
    /\ hist.kind = "pull"
    /\ i \in LastUpdated
    /\ RemoteChanged(hist.before, hist.done[i])

C12_LocalAndRemoteChanges ==
    \A i \in DOMAIN hist.done :
        UpdatedRemoteChange(i) =>
            LET before == hist.before
                c == hist.done[i]
                new == commits[localBranch]
            IN  /\ \A s \in Slots :
                     LET local == before.commits[c].tree[s]
                         below == before.commits[before.commits[c].parents[1]].tree[s]
                         remote == before.commits[TipOf(before, c)].tree[s]
                         pinned == before.commits[before.notes[c].remote_commit].tree[s]
                     IN  /\ remote # pinned => new.tree[s] = remote
                         /\ local # below /\ remote = pinned => new.tree[s] = local
                /\ localBranch \notin DOMAIN before.commits
                /\ ~head.detached
                /\ new.message = before.commits[c].message
                /\ remoteRefs = before.remoteRefs

C12_Witness ==
    /\ UpdatedRemoteChange(1)
    /\ pc = "idle"
    /\ result.kind = "ok"
    /\ hist.before.commits[hist.done[1]].tree[SideSlot(1)] = "local"
    /\ commits[localBranch].tree[FeatSlot(1)] = "feat"
    /\ commits[localBranch].tree[FixSlot(1)] = "remote"
    /\ commits[localBranch].tree[SideSlot(1)] = "local"

-----------------------------------------------------------------------------
(* C13: after a pull or sync that succeeded, every stack element that was  *)
(* tracked before the run is tracked at the commit that stands at its      *)
(* position now, with the same remote_branch_name and the same message.    *)
ReconciliationDone ==
    /\ hist.kind \in {"pull", "sync"}
    /\ pc = "idle"
    /\ result.kind = "ok"

C13_MetadataCarriedForward ==
    ReconciliationDone =>
        \A i \in DOMAIN hist.stack :
            TrackedIn(hist.before, hist.stack[i]) =>
                /\ i \in DOMAIN StackOf(Snapshot)
                /\ TrackedIn(Snapshot, StackOf(Snapshot)[i])
                /\ notes[StackOf(Snapshot)[i]].remote_branch_name
                     = hist.before.notes[hist.stack[i]].remote_branch_name
                /\ commits[StackOf(Snapshot)[i]].message
                     = hist.before.commits[hist.stack[i]].message

-----------------------------------------------------------------------------
(* C14: when the user amends a tracked commit in a repository the tool     *)
(* has opened, the rewritten commit carries the note of the commit it      *)
(* replaced.                                                               *)
AmendedTracked ==
    /\ hist.kind = "amend"
    /\ TrackedIn(hist.before, hist.stack[1])

C14_NoteSurvivesAmend ==
    AmendedTracked =>
        /\ localBranch = hist.done[1]
        /\ localBranch # hist.stack[1]
        /\ IsTracked(localBranch)
        /\ notes[localBranch] = hist.before.notes[hist.stack[1]]

C14_Witness ==
    /\ AmendedTracked
    /\ hist.prev = "create"
    /\ IsTracked(localBranch)
    /\ commits[remoteRefs[notes[localBranch].remote_branch_name]].tree[SideSlot(1)]
         = "local"

-----------------------------------------------------------------------------
(* C15: a publish that pushed a commit for one stack element moved only    *)
(* the remote branch of that element; what that branch carries over the    *)
(* remote base is the element's own change and nothing of the commits      *)
(* below it in the stack.                                                  *)
Pushed ==
    /\ hist.kind = "create"
    /\ pc = "idle"
    /\ result.kind = "ok"
    /\ hist.done # <<>>

C15_OnlyOwnBranchAndChange ==
    Pushed =>
        LET before == hist.before
            c == hist.stack[1]
            branch == notes[c].remote_branch_name
            tip == commits[remoteRefs[branch]].tree
            base == commits[BaseOf(before)].tree
            own == OwnChange(before.commits, c)
        IN  /\ remoteRefs[branch] = hist.done[1]
            /\ DOMAIN remoteRefs = DOMAIN before.remoteRefs \cup {branch}
            /\ \A b \in DOMAIN before.remoteRefs :
                 b # branch => remoteRefs[b] = before.remoteRefs[b]
            /\ \A s \in Slots :
                 IF s \in DOMAIN own THEN tip[s] = own[s][2] ELSE tip[s] = base[s]

C15_Witness ==
    /\ Pushed
    /\ Len(StackOf(hist.before)) = 2
    /\ hist.stack[1] = StackOf(hist.before)[2]
    /\ ~TrackedIn(hist.before, StackOf(hist.before)[1])
    /\ commits[hist.stack[1]].tree[FeatSlot(1)] = "feat"
    /\ commits[hist.done[1]].tree[FeatSlot(1)] = "-"
    /\ commits[hist.done[1]].tree[FeatSlot(2)] = "feat"

-----------------------------------------------------------------------------
(* C16: after a create that pushed, and again after a successful pull of   *)
(* the amended form of a published commit, the note on the local commit    *)
(* records the name of its remote branch and, as remote-commit, the        *)
(* current tip of that remote branch.                                      *)
RecordsBranchAndTip(c, branch) ==
    /\ IsTracked(c)
    /\ notes[c].remote_branch_name = branch
    /\ branch \in DOMAIN remoteRefs
    /\ notes[c].remote_commit = remoteRefs[branch]

PulledAmended ==
    /\ hist.kind = "pull"
    /\ hist.prev = "amend"
    /\ pc = "idle"
    /\ result.kind = "ok"
    /\ TrackedIn(hist.before, hist.before.localBranch)

C16_CreateRecordsTip ==
    Pushed => RecordsBranchAndTip(hist.stack[1], BranchOf(hist.stack[1]))

C16_NoteRecordsBranchAndTip ==
    /\ C16_CreateRecordsTip
    /\ PulledAmended =>
         RecordsBranchAndTip(localBranch,
                             hist.before.notes[hist.before.localBranch].remote_branch_name)

-----------------------------------------------------------------------------
-----------------------------------------------------------------------------
(* C18: unpushed_commits returns exactly the commits that are ancestors    *)
(* of (or equal to) the head of the current branch and not ancestors of    *)
(* (or equal to) a lower bound, oldest first; when the lower bound is an   *)
(* ancestor of the head, each element has the lower bound or the           *)
(* preceding element as its parent, and the sequence is empty when the     *)
(* head is the lower bound.  The lower bound is the base commit; in the    *)
(* unibranch revision, with a Sync State loaded in the handle, it is the   *)
(* interrupted commit (main_commit_id).                                    *)
StackShape(stack, top, lower) ==
    /\ {stack[i] : i \in DOMAIN stack}
         = Ancestors(commits, top) \ Ancestors(commits, lower)
    /\ \A i \in DOMAIN stack :
         commits[stack[i]].parents = <<IF i = 1 THEN lower ELSE stack[i - 1]>>
    /\ top = lower => stack = <<>>

(* The same, with the parents stated only for a lower bound that is an     *)
(* ancestor of the head.                                                   *)
StackShapeAbove(stack, top, lower) ==
    /\ {stack[i] : i \in DOMAIN stack}
         = Ancestors(commits, top) \ Ancestors(commits, lower)
    /\ \A i, j \in DOMAIN stack :
         stack[i] \in Ancestors(commits, stack[j]) => i <= j
    /\ lower \in Ancestors(commits, top) => StackShape(stack, top, lower)

LowerBound(repo) ==
    IF repo.sync_state # <<>> THEN repo.sync_state[1].main_commit_id
    ELSE base_commit(repo)

OldestFirstAboveBase_v1 ==
    open_v1.ok =>
        StackShape(unpushed_commits_v1(open_v1.repo), head_commit,
                   open_v1.repo.base_commit_id)

(* C18, as stated: the lower bound is the base commit in every state. *)
C18_StackAboveBase ==
    /\ OldestFirstAboveBase_v1
    /\ open.ok => StackShape(unpushed_commits(open.repo), localBranch,
                             base_commit(open.repo))
    /\ hist.kind \in {"sync", "continue"} /\ result.kind # "Detached HEAD"
         => hist.stack = StackOf(hist.before)

(* C18, with the lower bound the walk hides. *)
C18_StackAboveLowerBound ==
    /\ OldestFirstAboveBase_v1
    /\ open.ok => StackShapeAbove(unpushed_commits(open.repo), localBranch,
                                  LowerBound(open.repo))
    /\ hist.kind \in {"sync", "continue"} /\ hist.before.syncFile = <<>>
         /\ result.kind # "Detached HEAD"
         => hist.stack = StackOf(hist.before)

C18_Witness ==
    /\ hist.kind = "continue"
    /\ pc = "walk"
    /\ Len(StackOf(hist.before)) = 2
    /\ hist.before.syncFile[1].main_commit_id = StackOf(hist.before)[1]
    /\ hist.stack = <<StackOf(hist.before)[2]>>
    /\ todo = hist.stack

-----------------------------------------------------------------------------
(* C19: find_unpushed_commit succeeds for exactly the commits that have    *)
(* the base commit among the ancestors of their parents; for the base      *)
(* commit, its ancestors and every other commit it fails with              *)
(* AlreadyPushed, and the command that met the failure has changed         *)
(* nothing in the repository.                                              *)
RECURSIVE StrictDescendant(_, _)
StrictDescendant(c, base) ==
    \E i \in DOMAIN commits[c].parents :
        \/ commits[c].parents[i] = base
        \/ StrictDescendant(commits[c].parents[i], base)

C19_AlreadyPushed ==
    /\ \A c \in DOMAIN commits :
         /\ open_v1.ok =>
              find_unpushed_commit_v1(open_v1.repo, c)
                = StrictDescendant(c, open_v1.repo.base_commit_id)
         /\ open.ok =>
              find_unpushed_commit(open.repo, c)
                = StrictDescendant(c, base_commit(open.repo))
    /\ hist.kind = "create" /\ pc = "idle" =>
         IF StrictDescendant(hist.stack[1], BaseOf(hist.before))
         THEN result.kind # "AlreadyPushed"
         ELSE /\ result.kind = "AlreadyPushed"
              /\ Snapshot = hist.before

C19_Witness ==
    /\ hist.kind = "create"
    /\ pc = "idle"
    /\ hist.stack = <<RootId>>
    /\ result.kind = "AlreadyPushed"
    /\ hist.prev = "create"
    /\ DOMAIN notes # {}

-----------------------------------------------------------------------------
(* C20: whenever HEAD is detached, with or without a persisted Sync State, *)
(* open fails (NotABranch, reported as "Detached HEAD") and writes         *)
(* nothing, and a command started in such a state fails with that error    *)
(* and leaves the repository as it was.                                    *)
C20_DetachedHeadFails ==
    /\ pc = "idle" /\ head.detached =>
         /\ ~open_v1.ok /\ open_v1.error = "Detached HEAD" /\ open_v1.config = config
         /\ ~open.ok /\ open.error = "Detached HEAD" /\ open.config = config
    /\ hist.kind \in {"sync", "continue"} /\ hist.before.head.detached =>
         /\ pc = "idle"
         /\ result.kind = "Detached HEAD"
         /\ Snapshot = hist.before

-----------------------------------------------------------------------------
(* C21: after every successful open, with or without a persisted Sync      *)
(* State, the repository is configured with notes.rewriteRef and with the  *)
(* private state directory in info/exclude.  The open that finds a Sync    *)
(* State writes nothing itself: a Sync State exists only in a repository   *)
(* that an earlier open has configured.                                    *)
Configured(cfg) == {"notes.rewriteRef", "info/exclude"} \subseteq cfg

Opened ==
    /\ hist.kind \in {"sync", "continue"}
    /\ ~(pc = "idle" /\ result.kind = "Detached HEAD")

C21_OpenConfigures ==
    /\ open.ok => Configured(open.config)
    /\ Opened => Configured(config)
    /\ syncFile # <<>> => Configured(config)

C21_Witness ==
    /\ hist.kind = "continue"
    /\ hist.before.syncFile # <<>>
    /\ pc = "finish_merge"
    /\ handle.sync_state # <<>>
    /\ Configured(config)

-----------------------------------------------------------------------------
(* C22: save_meta_data(c, m) leaves c with exactly the note m, whatever    *)
(* note it had, and every other note as it was; a second call with the     *)
(* same arguments leaves the store as the first call left it.              *)
MetaInputs ==
    {CommitMetadata(PrBranch(k), r) : k \in Elems, r \in {NoCommit, localBranch}}

OverwritesOnly(before, after, c, m) ==
    /\ DOMAIN after = DOMAIN before \cup {c}
    /\ after[c] = m
    /\ \A d \in DOMAIN before : d # c => after[d] = before[d]

C22_SaveMetaDataOverwrites ==
    /\ \A c \in DOMAIN notes \cup {localBranch} : \A m \in MetaInputs :
         /\ OverwritesOnly(notes, save_meta_data(notes, c, m), c, m)
         /\ save_meta_data(save_meta_data(notes, c, m), c, m)
              = save_meta_data(notes, c, m)
    /\ Pushed =>
         OverwritesOnly(hist.before.notes, notes, hist.stack[1],
                        CommitMetadata(BranchOf(hist.stack[1]), hist.done[1]))

C22_Witness ==
    /\ Pushed
    /\ TrackedIn(hist.before, hist.stack[1])
    /\ notes[hist.stack[1]] # hist.before.notes[hist.stack[1]]
    /\ notes[hist.stack[1]].remote_commit = hist.done[1]
    /\ Cardinality(DOMAIN notes) > 1

-----------------------------------------------------------------------------
(* C23: remove_meta_data succeeds and leaves the commit without a note,    *)
(* both when the commit has a note and when it has none, so that a second  *)
(* call after a first succeeds as well and leaves the same store.          *)
C23_RemoveIsIdempotent ==
    hist.kind = "remove" /\ pc = "idle" =>
        /\ result.kind = "ok"
        /\ ~IsTracked(hist.stack[1])
        /\ \A d \in DOMAIN hist.before.notes :
             d # hist.stack[1] => IsTracked(d) /\ notes[d] = hist.before.notes[d]

(* The part of C23 that holds: the commit has no note after the call and   *)
(* the other notes are as before; the call succeeds when there was a note. *)
C23_RemoveLeavesNoNote ==
    hist.kind = "remove" /\ pc = "idle" =>
        /\ result.kind = "ok" <=> TrackedIn(hist.before, hist.stack[1])
        /\ ~IsTracked(hist.stack[1])
        /\ \A d \in DOMAIN hist.before.notes :
             d # hist.stack[1] => IsTracked(d) /\ notes[d] = hist.before.notes[d]

-----------------------------------------------------------------------------
(* C24: update_current_branch relocates the current branch atomically:     *)
(* after a call that succeeded the branch points at new_head and HEAD is   *)
(* attached to the branch; after a call in which a step failed the branch  *)
(* points at the commit it pointed at before and HEAD is attached to the   *)
(* branch.                                                                 *)
UpdateBranchFailed ==
    /\ hist.kind \in {"sync", "continue"}
    /\ pc = "idle"
    /\ \E step \in DOMAIN UpdateBranchError : result.kind = UpdateBranchError[step]

UpdateBranchSucceeded ==
    /\ hist.kind \in {"sync", "continue"}
    /\ pc = "idle"
    /\ result.kind = "ok"

C24_SuccessRelocates ==
    UpdateBranchSucceeded =>
        /\ ~head.detached
        /\ hist.moves = 1
        /\ commits[localBranch].tree = index.tree \/ index.conflicts # {}
        /\ Len(StackOf(Snapshot)) = Len(StackOf(hist.before))

C24_BranchRelocatedAtomically ==
    /\ C24_SuccessRelocates
    /\ UpdateBranchFailed =>
         /\ localBranch = hist.before.localBranch
         /\ ~head.detached

-----------------------------------------------------------------------------
(* C25: when the merge of a local commit with its remote tip yields an     *)
(* empty tree and no conflicts, the step fails with the empty-merge error  *)
(* ("Index is empty"), stores no merge commit and leaves the current       *)
(* branch and HEAD where they were.                                        *)
EmptyMergePending ==
    /\ pc = "pull"
    /\ todo # <<>>
    /\ IsTracked(Head(todo))
    /\ LET meta == notes[Head(todo)]
           pr_head == find_local_branch_commit(meta)
       IN  /\ pr_head # NoCommit
           /\ meta.remote_branch_name \in DOMAIN remoteRefs
           /\ DOMAIN OwnChange(commits, Head(todo)) = {}
           /\ commits[pr_head].tree = EmptyTree
           /\ commits[remoteRefs[meta.remote_branch_name]].tree = EmptyTree

EmptyMergeFailed ==
    hist.kind = "pull" /\ pc = "idle" /\ result.kind = "Index is empty"

C25_EmptyMergeFails ==
    [][EmptyMergePending =>
         /\ pc' = "idle"
         /\ result'.kind = "Index is empty"
         /\ commits' = commits
         /\ localBranch' = localBranch
         /\ head' = head]_vars

C25_Witness ==
    /\ EmptyMergeFailed
    /\ DOMAIN OwnChange(commits, result.local) = {}
    /\ commits[result.remote].tree = EmptyTree
    /\ localBranch = hist.before.localBranch

-----------------------------------------------------------------------------
(* C26: a conflict while cherry-picking a commit during publish is fatal:  *)
(* the command returns the error of the cherry-pick, no commit is written  *)
(* for the remote branch, no remote branch and no note changes, and no     *)
(* Sync State is persisted.                                                *)
CherryPickConflicts(snap, c) ==
    /\ c # BaseOf(snap)
    /\ BaseOf(snap) \in Ancestors(snap.commits, c)
    /\ cherrypick_commit(snap.commits, c, BaseOf(snap)).conflicts # {}

-----------------------------------------------------------------------------
(* C27: a commit produced by cherry_pick_commit has one parent, the target *)
(* it was given (the base commit when no PR head is given).  On the base   *)
(* commit it carries the message of the original; on a PR head it carries  *)
(* the message "Fixup! <PR head>", and a publish that pushes it extends    *)
(* the remote branch: the previous remote tip is its parent.               *)
Targets == {NoCommit} \cup {remoteRefs[b] : b \in DOMAIN remoteRefs}
           \cup {notes[d].remote_commit : d \in DOMAIN notes}

PickedOnto(c, t) == cherry_pick_commit(open_v1.repo, commits, c, t)

TargetOf(t) == IF t = NoCommit THEN open_v1.repo.base_commit_id ELSE t

C27_ParentIsTarget ==
    /\ open_v1.ok =>
         \A c \in Ancestors(commits, localBranch) \ {BaseOf(Snapshot), RootId} :
           \A t \in Targets :
             PickedOnto(c, t).picked =>
               LET new == PickedOnto(c, t).commit
                   target == TargetOf(t)
               IN  /\ new.parents = <<target>>
                   /\ target = BaseOf(Snapshot) => new.message = commits[c].message
                   /\ target # BaseOf(Snapshot) =>
                        /\ new.message = "Fixup! " \o ToString(target)
                        /\ new.message \notin {MessageOf(k) : k \in Elems}
    /\ Pushed /\ TrackedIn(hist.before, hist.stack[1]) =>
         LET before == hist.before
             c == hist.stack[1]
             branch == before.notes[c].remote_branch_name
             new == hist.done[1]
         IN  /\ commits[new].parents = <<before.remoteRefs[branch]>>
             /\ commits[new].message = "Fixup! " \o ToString(before.remoteRefs[branch])
             /\ remoteRefs[branch] = new

C27_Witness ==
    /\ Pushed
    /\ TrackedIn(hist.before, hist.stack[1])
    /\ commits[hist.done[1]].parents # <<BaseOf(Snapshot)>>
    /\ commits[hist.done[1]].message # commits[hist.stack[1]].message

-----------------------------------------------------------------------------
(* C28: after any open that succeeds, the handle reports a sync in         *)
(* progress exactly when the Sync State file exists, also when the file    *)
(* exists and its content cannot be parsed.                                *)
C28_InProgressIffFileExists ==
    open.ok => (open.repo.sync_state # <<>> <=> syncFile # <<>>)

(* The part of C28 that holds: the handle reports a sync in progress       *)
(* exactly when the file exists and parses, and then holds its content.    *)
C28_InProgressIffFileParses ==
    open.ok =>
        /\ open.repo.sync_state # <<>> <=> syncFile # <<>> /\ syncFile[1] # Truncated
        /\ open.repo.sync_state # <<>> => open.repo.sync_state = syncFile

-----------------------------------------------------------------------------
(* C29: when the process is killed between two steps of sync, resume or    *)
(* branch relocation, a restarted process can open the repository (and go  *)
(* on to complete the reconciliation from what is on disk).                *)
Killed == pc = "idle" /\ result.kind = "killed"

C29_RestartCanOpen ==
    Killed => open.ok

(* The part of C29 that holds: a process killed while the Sync State is    *)
(* persisted, or before HEAD is detached, can be restarted; one killed     *)
(* before the Sync State is deleted finds the state it was resuming.       *)
C29_RestartWithAttachedHead ==
    /\ Killed /\ (syncFile # <<>> \/ ~head.detached) => open.ok
    /\ Killed /\ hist.kind = "continue" /\ syncFile # <<>> =>
         open.repo.sync_state = hist.before.syncFile

-----------------------------------------------------------------------------
(* C30: a resumed run finishes the interrupted commit k on top of the      *)
(* persisted main_commit_parent_id and then processes the stack elements   *)
(* k+1..N, oldest first, each once: the walk of a handle with a Sync State *)
(* yields exactly the commits after main_commit_id, and what the run has   *)
(* processed is always a prefix of k, k+1, .., N, all of it when the run   *)
(* succeeds.                                                               *)
PositionOf(stack, c) == CHOOSE k \in DOMAIN stack : stack[k] = c

IsPrefix(p, q) == Len(p) <= Len(q) /\ \A i \in DOMAIN p : p[i] = q[i]

C30_ResumeProcessesRest ==
    ResumeRun =>
        LET before == hist.before
            state == before.syncFile[1]
            stack == StackOf(before)
            k == PositionOf(stack, state.main_commit_id)
            rest == SubSeq(stack, k + 1, Len(stack))
            now == StackOf(Snapshot)
        IN  /\ \E i \in DOMAIN stack : stack[i] = state.main_commit_id
            /\ hist.stack = rest
            /\ IsPrefix(hist.done, <<state.main_commit_id>> \o rest)
            /\ ResumeDone =>
                 /\ hist.done = <<state.main_commit_id>> \o rest
                 /\ Len(now) = Len(stack)
                 /\ commits[now[k]].parents = <<state.main_commit_parent_id>>
                 /\ commits[now[k]].message = before.commits[state.main_commit_id].message
                 /\ \A j \in (k + 1)..Len(stack) :
                      commits[now[j]].message = before.commits[stack[j]].message

C30_Witness ==
    /\ ResumeDone
    /\ Len(StackOf(hist.before)) = 2
    /\ hist.before.syncFile[1].main_commit_id = StackOf(hist.before)[1]
    /\ hist.done = StackOf(hist.before)
    /\ hist.stack = <<StackOf(hist.before)[2]>>
    /\ TrackedIn(hist.before, StackOf(hist.before)[2])

(* A resumed run whose interrupted commit is the second of two elements:  *)
(* its predecessor is the first element as the first run reconciled it.   *)
C30_SecondElementResumed ==
    /\ ResumeDone
    /\ Len(StackOf(hist.before)) = 2
    /\ hist.before.syncFile[1].main_commit_id = StackOf(hist.before)[2]
    /\ hist.before.syncFile[1].main_commit_parent_id # StackOf(hist.before)[1]
    /\ hist.stack = <<>>

-----------------------------------------------------------------------------
(* C31: in a reconciliation run every commit the run writes for a stack    *)
(* element has the already reconciled predecessor as its only parent (the  *)
(* base commit for the first element, the commit written for the previous  *)
(* element otherwise), and after a run that succeeded the branch holds the *)
(* same number of elements under the same messages in the same order, with *)
(* the change of every unpublished commit as it was.                       *)
ReparentedOntoPredecessor ==
    pred' # pred /\ pred' # NoCommit /\ pred # NoCommit =>
        /\ commits'[pred'].parents = <<pred>>
        /\ commits'[pred'].message = commits[Head(todo)].message

StackPreserved(before, stack) ==
    LET now == StackOf(Snapshot)
    IN  /\ Len(now) = Len(stack)
        /\ \A i \in DOMAIN stack :
             /\ commits[now[i]].message = before.commits[stack[i]].message
             /\ commits[now[i]].parents
                  = <<IF i = 1 THEN BaseOf(before) ELSE now[i - 1]>>
             /\ ~TrackedIn(before, stack[i]) =>
                  OwnChange(commits, now[i]) = OwnChange(before.commits, stack[i])

C31_StackPreserved ==
    UpdateBranchSucceeded => StackPreserved(hist.before, StackOf(hist.before))

C31_UpdateOntoNewParent == [][ReparentedOntoPredecessor]_vars

-----------------------------------------------------------------------------
(* C32: a tracked commit is reconciled against the pinned remote_commit    *)
(* when its metadata has one and against the tip of its remote branch      *)
(* otherwise, so that the reconciliation of an element fails for a missing *)
(* remote branch only when the branch is gone and no remote_commit is      *)
(* pinned.                                                                 *)
MissingBranchErrors == {"RemoteBranchMissing", "Find the remote branch"}

FailedElement == hist.stack[Len(hist.done) + 1]

PullFailedForBranch ==
    /\ hist.kind = "pull"
    /\ pc = "idle"
    /\ result.kind \in MissingBranchErrors

C32_FailsOnlyWithoutPin ==
    PullFailedForBranch =>
        /\ hist.before.notes[FailedElement].remote_branch_name
             \notin DOMAIN hist.before.remoteRefs
        /\ hist.before.notes[FailedElement].remote_commit = NoCommit

(* What holds of C32 in the older revision: the commit the local changes   *)
(* are added to is the pinned remote_commit, the merge is with the tip of  *)
(* the remote branch, and the element fails whenever the branch is gone.   *)
C32_FailsWheneverBranchGone ==
    /\ PullFailedForBranch =>
         hist.before.notes[FailedElement].remote_branch_name
             \notin DOMAIN hist.before.remoteRefs
    /\ \A c \in DOMAIN notes :
         notes[c].remote_commit # NoCommit =>
             find_local_branch_commit(notes[c]) = notes[c].remote_commit
    /\ hist.kind = "pull" /\ pc = "idle" /\ result.kind = "ok" =>
         \A i \in DOMAIN hist.stack :
           LET c == hist.stack[i]
           IN  TrackedIn(hist.before, c) =>
                 /\ hist.before.notes[c].remote_branch_name
                      \in DOMAIN hist.before.remoteRefs
                 /\ \E m \in DOMAIN commits :
                      /\ commits[m].message = "Merge"
                      /\ Len(commits[m].parents) = 2
                      /\ commits[m].parents[2] = TipOf(hist.before, c)

-----------------------------------------------------------------------------
(* C33: in DryRun mode update_current_branch returns success and leaves    *)
(* the branch, HEAD and the working tree as they are; in Default and in    *)
(* Silent mode it performs one and the same relocation: the tree of the    *)
(* new head checked out, the branch at the new head, HEAD attached.        *)
DryRunReturns ==
    pc = "walk" /\ todo = <<>> /\ handle.git_command_option = "DryRun" =>
        /\ pc' = "idle"
        /\ result'.kind = "ok"
        /\ localBranch' = localBranch
        /\ head' = head
        /\ index' = index

RelocatesInOtherModes ==
    /\ pc = "walk" /\ todo = <<>> /\ handle.git_command_option # "DryRun" =>
         /\ handle.git_command_option \in {"Default", "Silent"}
         /\ pc' = "ucb_detach"
         /\ index' = [tree |-> commits[pred].tree, conflicts |-> {}]
    /\ pc = "ucb_set_head" /\ pc' = "idle" =>
         /\ handle.git_command_option \in {"Default", "Silent"}
         /\ result'.kind = "ok"
         /\ localBranch' = pred
         /\ ~head'.detached
         /\ index'.tree = commits[pred].tree

C33_DryRunLeavesBranch ==
    [][DryRunReturns /\ RelocatesInOtherModes]_vars

C33_Witness ==
    /\ hist.kind = "sync"
    /\ pc = "idle"
    /\ result.kind = "ok"
    /\ hist.moves = 0
    /\ commits # hist.before.commits
    /\ localBranch = hist.before.localBranch
    /\ head = hist.before.head
    /\ index = hist.before.index

-----------------------------------------------------------------------------
(* C34: the merge commit finish_merge creates has exactly two parents, the *)
(* commit recorded as main_commit_id in the Sync State and the commit      *)
(* recorded as remote_commit_id, whatever the stack position of the        *)
(* interrupted commit.                                                     *)
MergeCommitted == pc = "fm_cleanup" /\ merged # NoCommit

C34_MergeParentsAreRecorded ==
    MergeCommitted =>
        commits[merged].parents = <<handle.sync_state[1].main_commit_id,
                                    handle.sync_state[1].remote_commit_id>>

(* What holds of C34: the merge commit has two parents, the commit HEAD    *)
(* points at and the recorded remote_commit_id; the first is the recorded  *)
(* main_commit_id when the interrupted commit is the head of the branch.   *)
C34_MergeParentsAreHeadAndRemote ==
    MergeCommitted =>
        /\ commits[merged].parents = <<head_commit,
                                       handle.sync_state[1].remote_commit_id>>
        /\ handle.sync_state[1].main_commit_id = localBranch =>
             commits[merged].parents[1] = handle.sync_state[1].main_commit_id

====
